---- MODULE Spec2Model ----
(***************************************************************************)
(* A state-machine model of the NFC configuration-tag card API of         *)
(* internal/nfc/nfc.go: the block transport (ReadBlock, WriteBlock,        *)
(* transmit), the CRC-16 engine (calculateCRC, reverseCRC,                 *)
(* CalculateAndWriteCRC, ValidateCRC) and the field mutations.             *)
(*                                                                         *)
(* Go strings are modelled as sequences of one-character strings, byte     *)
(* slices as sequences of integers 0..255.  A Go error value is a tuple of *)
(* message parts; the empty tuple is nil.  A run-time panic (slice bounds  *)
(* out of range) is the error <<"panic">>.                                 *)
(***************************************************************************)
EXTENDS Integers, Sequences, FiniteSets, TLC

VARIABLES
    tag,      \* the tag memory: block number 0..48 -> 4 bytes
    sent,     \* command APDUs handed to the reader by the last operation
    op,       \* name of the last card operation ("init" before the first)
    arg,      \* argument of the last operation
    fault,    \* transport fault the reader showed during the last operation
    result,   \* [err, val]: what the last operation returned
    pre,      \* the tag memory as it was when the last operation started
    prev,     \* [op, arg, fault, err] of the operation before the last
    nops,     \* number of operations run so far
    rcvd,     \* what the reader answered to each command of the last operation
    uid,      \* NfcCard.uid
    currentBeaconType   \* the package variable set by ReadSKU

vars == <<tag, sent, op, arg, fault, result, pre, prev, nops, rcvd, uid,
          currentBeaconType>>

-----------------------------------------------------------------------------
(* Bounds *)

\* operations run on one tag in a behaviour
MaxOps == 2

-----------------------------------------------------------------------------
(* Strings, hexadecimal conversion *)

nil == <<>>

HexLower == <<"0","1","2","3","4","5","6","7","8","9","a","b","c","d","e","f">>
HexUpper == <<"0","1","2","3","4","5","6","7","8","9","A","B","C","D","E","F">>

\* encoding/hex fromHexChar: value of a hex digit of either case, -1 otherwise
HexValue ==
    [c \in {HexLower[i] : i \in 1..16} \cup {HexUpper[i] : i \in 1..16} |->
        IF \E i \in 1..16 : HexLower[i] = c
        THEN (CHOOSE i \in 1..16 : HexLower[i] = c) - 1
        ELSE (CHOOSE i \in 1..16 : HexUpper[i] = c) - 1]
fromHexChar(c) == IF c \in DOMAIN HexValue THEN HexValue[c] ELSE -1

IsHexString(s) == \A i \in 1..Len(s) : fromHexChar(s[i]) >= 0

\* hex.DecodeString: an error on an odd length or a non-hex character
hexDecodeString(s) ==
    IF Len(s) % 2 = 0 /\ IsHexString(s)
    THEN [ok |-> TRUE,
          bytes |-> [i \in 1..(Len(s) \div 2) |->
                        fromHexChar(s[2 * i - 1]) * 16 + fromHexChar(s[2 * i])]]
    ELSE [ok |-> FALSE, bytes |-> <<>>]

\* hex.EncodeToString: two lower-case digits per byte
hexEncodeToString(bytes) ==
    [i \in 1..(2 * Len(bytes)) |->
        LET b == bytes[(i + 1) \div 2]
        IN  IF i % 2 = 1 THEN HexLower[(b \div 16) + 1] ELSE HexLower[(b % 16) + 1]]

\* fmt.Sprintf("%02X", b) for a byte
Sprintf02X(b) == <<HexUpper[(b \div 16) + 1], HexUpper[(b % 16) + 1]>>

\* fmt.Sprintf("%04X", n) for -4096 < n < 65536: four digits, or the sign
\* and three digits
Sprintf04X(n) ==
    IF n < 0
    THEN <<"-", HexUpper[((-n) \div 256) + 1]>> \o Sprintf02X((-n) % 256)
    ELSE Sprintf02X(n \div 256) \o Sprintf02X(n % 256)

\* strings.ToUpper on ASCII
ToUpperChar(c) ==
    IF \E i \in 11..16 : HexLower[i] = c
    THEN HexUpper[CHOOSE i \in 11..16 : HexLower[i] = c]
    ELSE c
ToUpper(s) == [i \in 1..Len(s) |-> ToUpperChar(s[i])]

\* variant: the digits parsed in base 10, as strconv.Atoi does
ParseUint16_Decimal(s) ==
    IF Len(s) # 2 \/ \E i \in 1..2 : fromHexChar(s[i]) \notin 0..9 THEN 0
    ELSE fromHexChar(s[1]) * 10 + fromHexChar(s[2])

\* strconv.ParseUint(s, 16, 8) with the error dropped: 0 on a syntax error
ParseUint16(s) ==
    IF Len(s) = 0 \/ ~IsHexString(s) THEN 0
    ELSE IF Len(s) = 1 THEN fromHexChar(s[1])
    ELSE fromHexChar(s[1]) * 16 + fromHexChar(s[2])

\* the Go slice expression s[lo:hi] (0-based, half-open) when it is in range
Slice(s, lo, hi) == SubSeq(s, lo + 1, hi)
SliceOK(s, lo, hi) == 0 <= lo /\ lo <= hi /\ hi <= Len(s)

-----------------------------------------------------------------------------
(* CRC-16 engine *)

\* bitwise exclusive or of two naturals
RECURSIVE Xor(_, _)
Xor(a, b) ==
    IF a = 0 THEN b
    ELSE IF b = 0 THEN a
    ELSE ((a + b) % 2) + 2 * Xor(a \div 2, b \div 2)

\* the same on bytes, tabulated once
XorByte == [a \in 0..255 |-> [b \in 0..255 |-> Xor(a, b)]]
Xor16(a, b) ==
    XorByte[a \div 256][b \div 256] * 256 + XorByte[a % 256][b % 256]

\* calculateCRC, inner loop: j = 0..7 shifts of the 16-bit register
RECURSIVE shiftLoop(_, _)
shiftLoop(crc, j) ==
    IF j = 8 THEN crc
    ELSE IF crc >= 32768
         THEN shiftLoop(Xor((crc * 2) % 65536, 4129), j + 1)
         ELSE shiftLoop((crc * 2) % 65536, j + 1)

\* the inner loop as a function of the register (high byte, low byte),
\* tabulated once
shiftByte == [h \in 0..255 |-> [l \in 0..255 |-> shiftLoop(h * 256 + l, 0)]]

\* one pass of the outer loop: crc ^= data[i] << 8, then the eight shifts
crcByte(crc, b) ==
    LET x == Xor16(crc, b * 256) IN shiftByte[x \div 256][x % 256]

\* calculateCRC, outer loop over data[lo..hi] in ascending order.  The index
\* range is halved to keep the evaluation depth logarithmic; the test on
\* 'left' makes the register a value before the upper half consumes it.
RECURSIVE crcLoop(_, _, _, _)
crcLoop(data, lo, hi, crc) ==
    IF lo > hi THEN crc
    ELSE IF lo = hi THEN crcByte(crc, data[lo])
    ELSE LET mid == (lo + hi) \div 2
             left == crcLoop(data, lo, mid, crc)
         IN  IF left < 0 THEN left ELSE crcLoop(data, mid + 1, hi, left)

\* variant: the register starts at zero
calculateCRC_InitZero(data) == crcLoop(data, 1, Len(data), 0)

calculateCRC(data) == crcLoop(data, 1, Len(data), 65535)

\* variant: the high byte stored first
reverseCRC_NoSwap(crc) ==
    LET msb == crc \div 256
        lsb == crc % 256
    IN  Sprintf02X(msb) \o Sprintf02X(lsb) \o <<"0", "0", "0", "0">>

\* reverseCRC: "%02X%02X0000" of the low byte, then the high byte
reverseCRC(crc) ==
    LET msb == crc \div 256
        lsb == crc % 256
    IN  Sprintf02X(lsb) \o Sprintf02X(msb) \o <<"0", "0", "0", "0">>

\* variant: the first byte taken as the high byte
storedCRCOf_NoSwap(storedCRCBlock) ==
    LET msb == ParseUint16(Slice(storedCRCBlock, 0, 2))
        lsb == ParseUint16(Slice(storedCRCBlock, 2, 4))
    IN  msb * 256 + lsb

\* ValidateCRC: the stored CRC decoded from the hex string of block 48
storedCRCOf(storedCRCBlock) ==
    LET lsb == ParseUint16(Slice(storedCRCBlock, 0, 2))
        msb == ParseUint16(Slice(storedCRCBlock, 2, 4))
    IN  msb * 256 + lsb

-----------------------------------------------------------------------------
(* The reader and the tag behind pcsc.Card.Apdu *)

NoFault == [ins |-> "none", block |-> 0, mode |-> "none"]
Fault(ins, block, mode) == [ins |-> ins, block |-> block, mode |-> mode]

InsRead == 176      \* 0xB0
InsWrite == 214     \* 0xD6
InsGetData == 202   \* 0xCA

IsReadCmd(cmd) == Len(cmd) = 5 /\ cmd[1] = 255 /\ cmd[2] = InsRead
IsWriteCmd(cmd) == Len(cmd) >= 5 /\ cmd[1] = 255 /\ cmd[2] = InsWrite
CmdBlock(cmd) == cmd[3] * 256 + cmd[4]
CmdPayload(cmd) == SubSeq(cmd, 6, Len(cmd))

IsUidCmd(cmd) == cmd = <<255, InsGetData, 0, 0, 0>>

\* the identifier of the tag in the field
TagUid == <<224, 2, 75, 17, 34, 51, 68, 85>>

FaultHits(f, cmd) ==
    \/ f.ins = "read" /\ IsReadCmd(cmd) /\ CmdBlock(cmd) = f.block
    \/ f.ins = "write" /\ IsWriteCmd(cmd) /\ CmdBlock(cmd) = f.block
    \/ f.ins = "uid" /\ IsUidCmd(cmd)

\* One command-response exchange.  A tag that stores what is written: a
\* write of 4 bytes to a block 0..48 replaces the block and answers 90 00, a
\* read answers the 4 bytes and 90 00.  A write whose data field is not the
\* announced 4 bytes is either refused with 67 00 or, on a lenient reader,
\* stored over the leading bytes of the block.  The get-data command is
\* answered with the identifier of the tag.  The fault f replaces the
\* answer to the command it names: a channel error, an empty or a one-byte
\* response, a failure status word, or a status word that differs from
\* 90 00 in one byte only.
Apdu(t, cmd, f, lenient) ==
    IF FaultHits(f, cmd)
    THEN CASE f.mode = "chan"  -> [tag |-> t, err |-> TRUE, resp |-> <<>>]
           [] f.mode = "short" -> [tag |-> t, err |-> FALSE, resp |-> <<144>>]
           [] f.mode = "empty" -> [tag |-> t, err |-> FALSE, resp |-> <<>>]
           [] f.mode = "sw2"   -> [tag |-> t, err |-> FALSE, resp |-> <<1, 2, 144, 1>>]
           [] f.mode = "sw1"   -> [tag |-> t, err |-> FALSE, resp |-> <<1, 2, 145, 0>>]
           [] f.mode = "trunc" -> [tag |-> t, err |-> FALSE, resp |-> <<18, 144, 0>>]
           [] f.mode = "long"  -> [tag |-> t, err |-> FALSE,
                                   resp |-> <<1, 2, 3, 4, 5, 144, 0>>]
           [] OTHER            -> [tag |-> t, err |-> FALSE, resp |-> <<99, 0>>]
    ELSE IF IsUidCmd(cmd)
    THEN [tag |-> t, err |-> FALSE, resp |-> TagUid \o <<144, 0>>]
    ELSE IF IsReadCmd(cmd) /\ CmdBlock(cmd) \in DOMAIN t
    THEN [tag |-> t, err |-> FALSE, resp |-> t[CmdBlock(cmd)] \o <<144, 0>>]
    ELSE IF IsWriteCmd(cmd) /\ CmdBlock(cmd) \in DOMAIN t
    THEN LET data == CmdPayload(cmd)
             old == t[CmdBlock(cmd)]
         IN  IF Len(data) = 4
             THEN [tag |-> [t EXCEPT ![CmdBlock(cmd)] = data],
                   err |-> FALSE, resp |-> <<144, 0>>]
             ELSE IF lenient /\ Len(data) < 4
             THEN [tag |-> [t EXCEPT ![CmdBlock(cmd)] =
                                data \o SubSeq(old, Len(data) + 1, 4)],
                   err |-> FALSE, resp |-> <<144, 0>>]
             ELSE [tag |-> t, err |-> FALSE, resp |-> <<103, 0>>]
    ELSE [tag |-> t, err |-> FALSE, resp |-> <<106, 130>>]

-----------------------------------------------------------------------------
(* Block transport.  A session s carries the tag, the commands sent so far *)
(* and the environment of the call (fault, lenient); every call returns    *)
(* the session extended with data (the returned string) and err.           *)

Session(t, f, lenient) ==
    [tag |-> t, sent |-> <<>>, rcvd |-> <<>>, f |-> f, lenient |-> lenient,
     data |-> <<>>, err |-> nil]

Fail(s, e) == [s EXCEPT !.data = <<>>, !.err = e]
Ok(s, d) == [s EXCEPT !.data = d, !.err = nil]
Wrap(s, msg) == [s EXCEPT !.data = <<>>, !.err = msg \o s.err]
Panic(s) == Fail(s, <<"panic">>)

\* x := e; rest: the value of e bound to a name for the statements after it
Then(e, rest(_)) == rest(e)

\* variant: only the first byte of the status word is compared
transmit_FirstStatusByte(s, cmdHex, expectedSW) ==
    Then(hexDecodeString(cmdHex), LAMBDA cmd :
    IF ~cmd.ok THEN Fail(s, <<"failed to decode command">>)
    ELSE
    Then(Apdu(s.tag, cmd.bytes, s.f, s.lenient), LAMBDA r :
    Then([s EXCEPT !.tag = r.tag, !.sent = Append(s.sent, cmd.bytes),
                   !.rcvd = Append(s.rcvd, [err |-> r.err, resp |-> r.resp])],
         LAMBDA s1 :
    Then(r.resp, LAMBDA resp :
    IF r.err THEN Fail(s1, <<"transmission failed">>)
    ELSE IF Len(resp) < 2 THEN Fail(s1, <<"response too short">>)
    ELSE IF resp[Len(resp) - 1] # expectedSW \div 256
    THEN Fail(s1, <<"unexpected status word">>)
    ELSE Ok(s1, hexEncodeToString(SubSeq(resp, 1, Len(resp) - 2)))))))

transmit(s, cmdHex, expectedSW) ==
    Then(hexDecodeString(cmdHex), LAMBDA cmd :
    IF ~cmd.ok THEN Fail(s, <<"failed to decode command">>)
    ELSE
    Then(Apdu(s.tag, cmd.bytes, s.f, s.lenient), LAMBDA r :
    Then([s EXCEPT !.tag = r.tag, !.sent = Append(s.sent, cmd.bytes),
                   !.rcvd = Append(s.rcvd, [err |-> r.err, resp |-> r.resp])],
         LAMBDA s1 :
    Then(r.resp, LAMBDA resp :
    IF r.err THEN Fail(s1, <<"transmission failed">>)
    ELSE IF Len(resp) < 2 THEN Fail(s1, <<"response too short">>)
    ELSE IF resp[Len(resp) - 1] * 256 + resp[Len(resp)] # expectedSW
    THEN Fail(s1, <<"unexpected status word">>)
    ELSE Ok(s1, hexEncodeToString(SubSeq(resp, 1, Len(resp) - 2)))))))

SwOK == 36864       \* 0x9000

\* variant: a failed exchange is tried once more
ReadBlock_Retry(s, blockNumber) ==
    Then(transmit(s, <<"F","F","B","0">> \o Sprintf04X(blockNumber) \o <<"0","4">>,
                  SwOK), LAMBDA r :
    IF r.err = nil THEN r
    ELSE transmit(r, <<"F","F","B","0">> \o Sprintf04X(blockNumber) \o <<"0","4">>,
                  SwOK))

ReadBlock(s, blockNumber) ==
    transmit(s, <<"F","F","B","0">> \o Sprintf04X(blockNumber) \o <<"0","4">>,
             SwOK)

\* variant: the length byte is left out
WriteBlock_NoLength(s, blockNumber, block) ==
    transmit(s, <<"F","F","D","6">> \o Sprintf04X(blockNumber) \o block, SwOK)

WriteBlock(s, blockNumber, block) ==
    transmit(s, <<"F","F","D","6">> \o Sprintf04X(blockNumber) \o <<"0","4">>
                \o block, SwOK)

\* getUID: the session's data is the string assigned to m.uid
getUID(s) == transmit(s, <<"F","F","C","A","0","0","0","0","0","0">>, SwOK)

-----------------------------------------------------------------------------
(* CRC maintenance *)

\* ReadConfigurationForCRC, the loop over the blocks lo..hi in ascending
\* order; nfcData is what the blocks before lo gave.  The block range is
\* halved to keep the evaluation depth logarithmic: the upper half runs only
\* when the lower half returned without error, as the loop's early return.
RECURSIVE readConfigLoop(_, _, _, _)
readConfigLoop(s, lo, hi, nfcData) ==
    IF lo > hi THEN Ok(s, nfcData)
    ELSE IF lo = hi
    THEN Then(ReadBlock(s, lo), LAMBDA r :
         IF r.err # nil THEN Wrap(r, <<"failed to read block", lo>>)
         ELSE
         Then(hexDecodeString(r.data), LAMBDA bytes :
         IF ~bytes.ok THEN Fail(r, <<"failed to decode block data", lo>>)
         ELSE Ok(r, nfcData \o bytes.bytes)))
    ELSE Then(readConfigLoop(s, lo, (lo + hi) \div 2, nfcData), LAMBDA left :
         IF left.err # nil THEN left
         ELSE readConfigLoop(left, ((lo + hi) \div 2) + 1, hi, left.data))

ReadConfigurationForCRC(s) == readConfigLoop(s, 0, 47, <<>>)

CalculateAndWriteCRC(s) ==
    Then(ReadConfigurationForCRC(s), LAMBDA cfg :
    IF cfg.err # nil THEN Wrap(cfg, <<"failed to read configuration">>)
    ELSE
    Then(calculateCRC(cfg.data), LAMBDA crc :
    Then(reverseCRC(crc), LAMBDA reversedCRCHex :
    Then(WriteBlock(cfg, 48, reversedCRCHex), LAMBDA w :
    IF w.err # nil THEN Wrap(w, <<"failed to write CRC">>)
    ELSE Ok(w, <<>>)))))

\* variant: a mismatch is repaired by rewriting block 48
ValidateCRC_Repair(s) ==
    Then(ReadConfigurationForCRC(s), LAMBDA cfg :
    IF cfg.err # nil THEN Wrap(cfg, <<"failed to read configuration">>)
    ELSE
    Then(calculateCRC(cfg.data), LAMBDA calculatedCRC :
    Then(ReadBlock(cfg, 48), LAMBDA r :
    IF r.err # nil THEN Wrap(r, <<"failed to read CRC block">>)
    ELSE IF ~SliceOK(r.data, 2, 4) THEN Panic(r)
    ELSE IF calculatedCRC # storedCRCOf(r.data)
    THEN Fail(WriteBlock(r, 48, reverseCRC(calculatedCRC)),
              <<"CRC validation failed">>)
    ELSE Ok(r, <<>>))))

ValidateCRC(s) ==
    Then(ReadConfigurationForCRC(s), LAMBDA cfg :
    IF cfg.err # nil THEN Wrap(cfg, <<"failed to read configuration">>)
    ELSE
    Then(calculateCRC(cfg.data), LAMBDA calculatedCRC :
    Then(ReadBlock(cfg, 48), LAMBDA r :
    IF r.err # nil THEN Wrap(r, <<"failed to read CRC block">>)
    ELSE IF ~SliceOK(r.data, 2, 4) THEN Panic(r)
    ELSE IF calculatedCRC # storedCRCOf(r.data)
    THEN Fail(r, <<"CRC validation failed">>)
    ELSE Ok(r, <<>>))))

-----------------------------------------------------------------------------
(* Field mutations and reads *)

AsciiDigit == <<"0","1","2","3","4","5","6","7","8","9">>
AsciiUpper == <<"A","B","C","D","E","F","G","H","I","J","K","L","M",
                "N","O","P","Q","R","S","T","U","V","W","X","Y","Z">>
AsciiLower == <<"a","b","c","d","e","f","g","h","i","j","k","l","m",
                "n","o","p","q","r","s","t","u","v","w","x","y","z">>

\* the code point of a character of the alphabet used for names
Rune(c) ==
    IF \E i \in 1..10 : AsciiDigit[i] = c
    THEN 47 + (CHOOSE i \in 1..10 : AsciiDigit[i] = c)
    ELSE IF \E i \in 1..26 : AsciiUpper[i] = c
    THEN 64 + (CHOOSE i \in 1..26 : AsciiUpper[i] = c)
    ELSE IF \E i \in 1..26 : AsciiLower[i] = c
    THEN 96 + (CHOOSE i \in 1..26 : AsciiLower[i] = c)
    ELSE IF c = ":" THEN 58
    ELSE 32

\* encodeASCIIToHex: "%02x" of every rune
encodeASCIIToHex(str) ==
    [i \in 1..(2 * Len(str)) |->
        LET c == Rune(str[(i + 1) \div 2])
        IN  IF i % 2 = 1 THEN HexLower[(c \div 16) + 1] ELSE HexLower[(c % 16) + 1]]

WriteLoraJoinEui(s, joinEui) ==
    IF ~SliceOK(joinEui, 0, 8) THEN Panic(s)
    ELSE
    Then(Slice(joinEui, 0, 8), LAMBDA block1 :
    Then(Slice(joinEui, 8, Len(joinEui)), LAMBDA block2 :
    Then(WriteBlock(s, 0, block1), LAMBDA w1 :
    IF w1.err # nil THEN w1
    ELSE
    Then(WriteBlock(w1, 1, block2), LAMBDA w2 :
    IF w2.err # nil THEN w2 ELSE CalculateAndWriteCRC(w2)))))

\* WriteLoraJoinKey, the loop i = 3..6 over the four blocks
RECURSIVE writeKeyLoop(_, _, _)
writeKeyLoop(s, i, block) ==
    IF i > 6 THEN Ok(s, <<>>)
    ELSE Then(WriteBlock(s, i, block[i - 2]), LAMBDA w :
         IF w.err # nil THEN Wrap(w, <<"failed to read block", i>>)
         ELSE writeKeyLoop(w, i + 1, block))

\* variant: no check of the key length
WriteLoraJoinKey_NoLenCheck(s, loraAppKey) ==
    IF ~SliceOK(loraAppKey, 0, 8) \/ ~SliceOK(loraAppKey, 8, 16)
       \/ ~SliceOK(loraAppKey, 16, 24) \/ ~SliceOK(loraAppKey, 24, Len(loraAppKey))
    THEN Panic(s)
    ELSE
    Then(<<Slice(loraAppKey, 0, 8), Slice(loraAppKey, 8, 16),
           Slice(loraAppKey, 16, 24), Slice(loraAppKey, 24, Len(loraAppKey))>>,
         LAMBDA block :
    Then(writeKeyLoop(s, 3, block), LAMBDA w :
    IF w.err # nil THEN w ELSE CalculateAndWriteCRC(w)))

WriteLoraJoinKey(s, loraAppKey) ==
    IF Len(loraAppKey) > 32
    THEN Fail(s, <<"invalid LoRa App Key length, should be 32 characters in hex">>)
    ELSE IF ~SliceOK(loraAppKey, 0, 8) \/ ~SliceOK(loraAppKey, 8, 16)
            \/ ~SliceOK(loraAppKey, 16, 24) \/ ~SliceOK(loraAppKey, 24, Len(loraAppKey))
    THEN Panic(s)
    ELSE
    Then(<<Slice(loraAppKey, 0, 8), Slice(loraAppKey, 8, 16),
           Slice(loraAppKey, 16, 24), Slice(loraAppKey, 24, Len(loraAppKey))>>,
         LAMBDA block :
    Then(writeKeyLoop(s, 3, block), LAMBDA w :
    IF w.err # nil THEN w ELSE CalculateAndWriteCRC(w)))

WriteTagSleepBit(s, bitValue) ==
    Then(ReadBlock(s, 13), LAMBDA r :
    IF r.err # nil THEN r
    ELSE
    Then(r.data, LAMBDA block13 :
    IF ~SliceOK(block13, 0, 2) \/ ~SliceOK(block13, 3, Len(block13))
    THEN Panic(r)
    ELSE
    Then(Slice(block13, 0, 2) \o (IF bitValue THEN <<"0">> ELSE <<"1">>)
         \o Slice(block13, 3, Len(block13)), LAMBDA finalBlock13 :
    Then(WriteBlock(r, 13, finalBlock13), LAMBDA w :
    IF w.err # nil THEN w ELSE CalculateAndWriteCRC(w)))))

WriteBLELocalName(s, name) ==
    Then(encodeASCIIToHex(name), LAMBDA asciiToHex :
    IF Len(asciiToHex) > 16
    THEN Fail(s, <<"name too long, maximum 8 bytes allowed">>)
    ELSE
    Then(asciiToHex \o [i \in 1..(16 - Len(asciiToHex)) |-> " "], LAMBDA padded :
    Then([i \in 1..16 |-> IF padded[i] = " " THEN "0" ELSE padded[i]], LAMBDA zeroed :
    Then(WriteBlock(s, 22, Slice(zeroed, 0, 8)), LAMBDA w1 :
    IF w1.err # nil THEN Wrap(w1, <<"failed to write block 22">>)
    ELSE
    Then(WriteBlock(w1, 23, Slice(zeroed, 8, 16)), LAMBDA w2 :
    IF w2.err # nil THEN Wrap(w2, <<"failed to write block 23">>)
    ELSE CalculateAndWriteCRC(w2))))))

\* string(bytes) on the alphabet used for names: the character of a code
\* point; a byte outside the alphabet stands for itself
Char(b) ==
    IF b \in 48..57 THEN AsciiDigit[b - 47]
    ELSE IF b \in 65..90 THEN AsciiUpper[b - 64]
    ELSE IF b \in 97..122 THEN AsciiLower[b - 96]
    ELSE IF b = 58 THEN ":"
    ELSE IF b = 32 THEN " "
    ELSE b

\* strings.TrimRight(bytes, "\x00"): the bytes up to the last one that is not 0
TrimRightNul(bytes) ==
    SubSeq(bytes, 1,
           IF \E i \in 1..Len(bytes) : bytes[i] # 0
           THEN CHOOSE i \in 1..Len(bytes) :
                    bytes[i] # 0 /\ \A j \in (i + 1)..Len(bytes) : bytes[j] = 0
           ELSE 0)

\* strings.ReplaceAll(str, " ", "")
RemoveSpaces(str) == SelectSeq(str, LAMBDA c : c # " ")

\* variant: the trailing NUL bytes kept
decodeHexToASCII_NoTrim(hexString) ==
    Then(hexDecodeString(RemoveSpaces(hexString)), LAMBDA d :
    IF ~d.ok THEN [err |-> <<"error decoding hex string">>, str |-> <<>>]
    ELSE [err |-> nil, str |-> [i \in 1..Len(d.bytes) |-> Char(d.bytes[i])]])

\* decodeHexToASCII: [err, str]
decodeHexToASCII(hexString) ==
    Then(hexDecodeString(RemoveSpaces(hexString)), LAMBDA d :
    IF ~d.ok THEN [err |-> <<"error decoding hex string">>, str |-> <<>>]
    ELSE [err |-> nil,
          str |-> [i \in 1..Len(TrimRightNul(d.bytes)) |->
                      Char(TrimRightNul(d.bytes)[i])]])

ReadBLELocalName(s) ==
    Then(ReadBlock(s, 22), LAMBDA r1 :
    IF r1.err # nil THEN r1
    ELSE
    Then(ReadBlock(r1, 23), LAMBDA r2 :
    IF r2.err # nil THEN r2
    ELSE
    Then(decodeHexToASCII(r1.data \o r2.data), LAMBDA ascii :
    IF ascii.err # nil THEN Fail(r2, ascii.err) ELSE Ok(r2, ascii.str))))

\* strings.Join(parts, ":") of the two-character parts of an even-length string
JoinOctets(h) ==
    [i \in 1..(Len(h) + (Len(h) \div 2) - 1) |->
        IF i % 3 = 0 THEN ":" ELSE h[i - (i \div 3)]]

\* variant: the two blocks joined in the opposite order
ReadLoraDevEui_Swapped(s) ==
    Then(ReadBlock(s, 11), LAMBDA r1 :
    IF r1.err # nil THEN Wrap(r1, <<"failed to read LoRa block 11">>)
    ELSE
    Then(ReadBlock(r1, 12), LAMBDA r2 :
    IF r2.err # nil THEN Wrap(r2, <<"failed to read LoRa block 12">>)
    ELSE
    Then(r1.data, LAMBDA loraDword1 :
    Then(r2.data, LAMBDA loraDword2 :
    IF ~SliceOK(loraDword1, 6, 8) \/ ~SliceOK(loraDword2, 6, 8) THEN Panic(r2)
    ELSE Ok(r2, ToUpper(JoinOctets(Slice(loraDword2, 0, 8)
                                   \o Slice(loraDword1, 0, 8))))))))

ReadLoraDevEui(s) ==
    Then(ReadBlock(s, 11), LAMBDA r1 :
    IF r1.err # nil THEN Wrap(r1, <<"failed to read LoRa block 11">>)
    ELSE
    Then(ReadBlock(r1, 12), LAMBDA r2 :
    IF r2.err # nil THEN Wrap(r2, <<"failed to read LoRa block 12">>)
    ELSE
    Then(r1.data, LAMBDA loraDword1 :
    Then(r2.data, LAMBDA loraDword2 :
    IF ~SliceOK(loraDword1, 6, 8) \/ ~SliceOK(loraDword2, 6, 8) THEN Panic(r2)
    ELSE Ok(r2, ToUpper(JoinOctets(Slice(loraDword1, 0, 8)
                                   \o Slice(loraDword2, 0, 8))))))))

\* variant: the rest of block 9 is not kept
WriteTagPostBit_WholeBlock(s, bitValue) ==
    Then(ReadBlock(s, 9), LAMBDA r :
    IF r.err # nil THEN r
    ELSE
    Then((IF bitValue THEN <<"0","1">> ELSE <<"0","0">>)
         \o <<"0","0","0","0","0","0">>, LAMBDA finalBlock9 :
    Then(WriteBlock(r, 9, Slice(finalBlock9, 0, 8)), LAMBDA w :
    IF w.err # nil THEN w ELSE CalculateAndWriteCRC(w))))

WriteTagPostBit(s, bitValue) ==
    Then(ReadBlock(s, 9), LAMBDA r :
    IF r.err # nil THEN r
    ELSE
    Then(r.data, LAMBDA block9 :
    IF ~SliceOK(block9, 2, Len(block9)) THEN Panic(r)
    ELSE
    Then((IF bitValue THEN <<"0","1">> ELSE <<"0","0">>)
         \o Slice(block9, 2, Len(block9)), LAMBDA finalBlock9 :
    IF ~SliceOK(finalBlock9, 0, 8) THEN Panic(r)
    ELSE
    Then(WriteBlock(r, 9, Slice(finalBlock9, 0, 8)), LAMBDA w :
    IF w.err # nil THEN w ELSE CalculateAndWriteCRC(w)))))

\* EraseTag, the loop over the blocks lo..hi in ascending order, halved as
\* readConfigLoop is
RECURSIVE eraseLoop(_, _, _)
eraseLoop(s, lo, hi) ==
    IF lo > hi THEN Ok(s, <<>>)
    ELSE IF lo = hi
    THEN Then(WriteBlock(s, lo, <<"f","f","f","f","f","f","f","f">>), LAMBDA w :
         IF w.err # nil THEN Wrap(w, <<"failed to erase block", lo>>)
         ELSE Ok(w, <<>>))
    ELSE Then(eraseLoop(s, lo, (lo + hi) \div 2), LAMBDA left :
         IF left.err # nil THEN left
         ELSE eraseLoop(left, ((lo + hi) \div 2) + 1, hi))

\* variant: the CRC is not recomputed after the fill
EraseTag_NoCrc(s) == eraseLoop(s, 0, 48)

EraseTag(s) ==
    Then(eraseLoop(s, 0, 48), LAMBDA e :
    IF e.err # nil THEN e
    ELSE
    Then(CalculateAndWriteCRC(e), LAMBDA c :
    IF c.err # nil THEN Wrap(c, <<"failed to write CRC after erasure">>)
    ELSE c))

\* variant: the CRC is recomputed although the write of block 12 failed
WriteLoraDevEui_Repair(s, loraDevEui) ==
    IF Len(loraDevEui) # 16
    THEN Fail(s, <<"invalid lora deveui, len must be 16">>)
    ELSE
    Then(WriteBlock(s, 11, Slice(loraDevEui, 0, 8)), LAMBDA w1 :
    IF w1.err # nil THEN w1
    ELSE
    Then(WriteBlock(w1, 12, Slice(loraDevEui, 8, 16)), LAMBDA w2 :
    IF w2.err # nil THEN Fail(CalculateAndWriteCRC(w2), w2.err)
    ELSE CalculateAndWriteCRC(w2)))

WriteLoraDevEui(s, loraDevEui) ==
    IF Len(loraDevEui) # 16
    THEN Fail(s, <<"invalid lora deveui, len must be 16">>)
    ELSE
    Then(WriteBlock(s, 11, Slice(loraDevEui, 0, 8)), LAMBDA w1 :
    IF w1.err # nil THEN w1
    ELSE
    Then(WriteBlock(w1, 12, Slice(loraDevEui, 8, 16)), LAMBDA w2 :
    IF w2.err # nil THEN w2 ELSE CalculateAndWriteCRC(w2)))

-----------------------------------------------------------------------------
(* The LoRa identity readers *)

ReadLoraJoinEui(s) ==
    Then(ReadBlock(s, 0), LAMBDA r1 :
    IF r1.err # nil THEN r1
    ELSE
    Then(ReadBlock(r1, 1), LAMBDA r2 :
    IF r2.err # nil THEN r2 ELSE Ok(r2, r1.data \o r2.data)))

\* ReadLoraJoinKey, the loop i = 3..6 with the blocks read so far in joinKey
RECURSIVE readKeyLoop(_, _, _)
readKeyLoop(s, i, joinKey) ==
    IF i > 6 THEN Ok(s, joinKey)
    ELSE Then(ReadBlock(s, i), LAMBDA r :
         IF r.err # nil THEN Wrap(r, <<"failed to read block", i>>)
         ELSE readKeyLoop(r, i + 1, joinKey \o r.data))

ReadLoraJoinKey(s) == readKeyLoop(s, 3, <<>>)

\* ReadLoraInfo; the timestamp is the wall clock, outside the model
ReadLoraInfo(s) ==
    Then(ReadLoraDevEui(s), LAMBDA d :
    IF d.err = <<"panic">> THEN d
    ELSE IF d.err # nil THEN Wrap(d, <<"failed to read DevEUI">>)
    ELSE
    Then(ReadLoraJoinEui(d), LAMBDA j :
    IF j.err # nil THEN Wrap(j, <<"failed to read JoinEUI">>)
    ELSE
    Then(ReadLoraJoinKey(j), LAMBDA k :
    IF k.err # nil THEN Wrap(k, <<"failed to read JoinKey">>)
    ELSE
    Then(ValidateCRC(k), LAMBDA v :
    IF v.err = <<"panic">> THEN v
    ELSE Ok(v, <<[Timestamp |-> "now",
                  DevEUI |-> ToUpper(d.data),
                  JoinEUI |-> ToUpper(j.data),
                  JoinKey |-> ToUpper(k.data),
                  CRCStatus |-> IF v.err # nil THEN "INVALID" ELSE "VALID"]>>)))))

ReadBleMac(s) ==
    Then(ReadBlock(s, 18), LAMBDA r1 :
    IF r1.err # nil THEN Wrap(r1, <<"failed to read BLE block 18">>)
    ELSE
    Then(ReadBlock(r1, 19), LAMBDA r2 :
    IF r2.err # nil THEN Wrap(r2, <<"failed to read BLE block 19">>)
    ELSE
    Then(r1.data, LAMBDA bleDword1 :
    Then(r2.data, LAMBDA bleDword2 :
    IF ~SliceOK(bleDword2, 2, 4) \/ ~SliceOK(bleDword1, 6, 8) THEN Panic(r2)
    ELSE Ok(r2, JoinOctets(Slice(bleDword2, 2, 4) \o Slice(bleDword2, 0, 2)
                           \o Slice(bleDword1, 6, 8) \o Slice(bleDword1, 4, 6)
                           \o Slice(bleDword1, 2, 4) \o Slice(bleDword1, 0, 2)))))))

ReadMACAddress(s) ==
    Then(ReadBlock(s, 11), LAMBDA r1 :
    IF r1.err # nil THEN Wrap(r1, <<"failed to read block 11">>)
    ELSE
    Then(ReadBlock(r1, 12), LAMBDA r2 :
    IF r2.err # nil THEN Wrap(r2, <<"failed to read block 12">>)
    ELSE IF Len(r1.data) # 8 \/ Len(r2.data) # 8
    THEN Fail(r2, <<"invalid block data length">>)
    ELSE Ok(r2, JoinOctets(r1.data \o r2.data))))

-----------------------------------------------------------------------------
(* Number parsing and the lookups of the settings readers *)

\* the value of a string of decimal digits, most significant first
RECURSIVE DecValue(_)
DecValue(s) ==
    IF Len(s) = 0 THEN 0
    ELSE 10 * DecValue(SubSeq(s, 1, Len(s) - 1)) + fromHexChar(s[Len(s)])

IsDecimal(s) == Len(s) > 0 /\ \A i \in 1..Len(s) : fromHexChar(s[i]) \in 0..9

\* strconv.Atoi with the error dropped, on strings without a sign: 0 unless
\* every character is a decimal digit
Atoi(s) == IF IsDecimal(s) THEN DecValue(s) ELSE 0

\* the value of a string of hex digits, most significant first
RECURSIVE HexDigitsValue(_)
HexDigitsValue(s) ==
    IF Len(s) = 0 THEN 0
    ELSE 16 * HexDigitsValue(SubSeq(s, 1, Len(s) - 1)) + fromHexChar(s[Len(s)])

\* strconv.ParseInt(s, 16, bitSize) and ParseUint with the error dropped:
\* 0 on a syntax error, the largest value of the type (max) on overflow
ParseHex(s, max) ==
    IF Len(s) = 0 \/ ~IsHexString(s) THEN 0
    ELSE IF HexDigitsValue(s) > max THEN max
    ELSE HexDigitsValue(s)

\* the limit passed for bitSize 0: strings parsed that way have at most 4
\* hex digits here, far from the 64-bit limit of the code
MaxInt == 2147483647

\* fmt.Sprintf("%d", n) for n >= 0
RECURSIVE Itoa(_)
Itoa(n) ==
    IF n < 10 THEN <<AsciiDigit[n + 1]>>
    ELSE Itoa(n \div 10) \o <<AsciiDigit[(n % 10) + 1]>>

parseSleepState(state) ==
    CASE state = <<"0">> -> "Asleep"
      [] state = <<"1">> -> "Awake"
      [] OTHER -> "Unknown"

parseDebugOption(option) ==
    CASE option = <<"0">> -> "Tones Disabled"
      [] option = <<"1">> -> "Tones Enabled"
      [] OTHER -> "Unknown"

parseMACOption(option) ==
    CASE option = <<"0">> -> "LoRa Module"
      [] option = <<"1">> -> "LoRa DevEUI"
      [] OTHER -> "Unknown"

parseSpreadingFactor(sf) ==
    IF ParseHex(sf, MaxInt) = 255 THEN <<"A","D","R">>
    ELSE Itoa(ParseHex(sf, MaxInt))

parseLoRaEnable(enable) == IF Atoi(enable) = 1 THEN "Enabled" ELSE "Disabled"

regions ==
    [k \in {0, 1, 5, 6, 7, 8, 10, 11} |->
        CASE k = 0 -> "AS 923MHz_GRP1" [] k = 1 -> "AU 915MHz"
          [] k = 5 -> "EU 868MHz" [] k = 6 -> "SK 930MHz"
          [] k = 7 -> "IN 865MHz" [] k = 8 -> "US 915MHz"
          [] k = 10 -> "AS923_GRP2" [] k = 11 -> "AS923_GRP3"]

parseLoRaRegion(region) ==
    IF Atoi(region) \in DOMAIN regions THEN regions[Atoi(region)]
    ELSE "Not Selected"

gains ==
    [k \in {<<"D","8">>, <<"E","C">>, <<"F","0">>, <<"F","4">>, <<"F","8">>,
            <<"F","C">>, <<"0","0">>, <<"0","3">>, <<"0","4">>} |->
        CASE k = <<"D","8">> -> "-40dBm" [] k = <<"E","C">> -> "-20dBm"
          [] k = <<"F","0">> -> "-16dBm" [] k = <<"F","4">> -> "-12dBm"
          [] k = <<"F","8">> -> "-8dBm" [] k = <<"F","C">> -> "-4dBm"
          [] k = <<"0","0">> -> "0dBm" [] k = <<"0","3">> -> "3dBm"
          [] k = <<"0","4">> -> "4dBm"]

parseBLEGain(gain) ==
    IF gain \in DOMAIN gains THEN gains[gain] ELSE "Unknown"

\* parseRefFilter: one rune per two hex characters; the slice filter[i:i+2]
\* of an odd-length string is out of range
parseRefFilter(filter) ==
    [i \in 1..(Len(filter) \div 2) |->
        ParseHex(SubSeq(filter, 2 * i - 1, 2 * i), MaxInt)]

parseBLEAdvertisingType(adType) ==
    IF adType = <<"0","1">> THEN "sBeacon" ELSE "Default"

parsePressUplink(uplink) ==
    IF uplink = <<"0","1">> THEN "Disabled" ELSE "Enabled"

periods ==
    [k \in 0..7 |->
        CASE k = 0 -> "1 s" [] k = 1 -> "2 s" [] k = 2 -> "4 s" [] k = 3 -> "8 s"
          [] k = 4 -> "16 s" [] k = 5 -> "32 s" [] k = 6 -> "64 s"
          [] k = 7 -> "128 s"]

parsePingSlotPeriod(period) ==
    IF Atoi(period) \in DOMAIN periods THEN periods[Atoi(period)]
    ELSE "Unknown"

parseBLERefMode(flags) ==
    CASE flags = <<"1","0">> -> "Reference Tags"
      [] flags = <<"0","1">> -> "BluFi"
      [] flags = <<"0","0">> -> "Disabled"
      [] OTHER -> "Unknown"

parseClassSelect(flags) ==
    CASE flags = <<"0","0">> -> "Class A"
      [] flags = <<"1","0">> -> "Class B"
      [] flags = <<"0","1">> -> "Class C"
      [] OTHER -> "Unknown"

parseConfirmedUplinks(flags) ==
    CASE flags = <<"0">> -> "Disabled"
      [] flags = <<"1">> -> "Enabled"
      [] OTHER -> "Unknown"

parseHopping(flags) ==
    CASE flags = <<"0">> -> "Disabled"
      [] flags = <<"1">> -> "Enabled"
      [] OTHER -> "Unknown"

complementToDec(hex) ==
    IF ParseHex(hex, MaxInt) > 127 THEN ParseHex(hex, MaxInt) - 256
    ELSE ParseHex(hex, MaxInt)

\* the name and image of the beacon types getBeaconInfo knows
beaconTypes ==
    [k \in {<<"0","0">>, <<"0","1">>, <<"F","F">>, <<"0","D">>, <<"1","2">>,
            <<"0","9">>, <<"0","8">>, <<"1","4">>, <<"1","5">>, <<"1","3">>,
            <<"1","6">>, <<"1","7">>} |->
        CASE k \in {<<"0","0">>, <<"0","1">>, <<"F","F">>} ->
                 [Name |-> "Please select the tag type", Image |-> ""]
          [] k = <<"0","D">> ->
                 [Name |-> "Sense Asset BLE", Image |-> "Sense_BLE_Small"]
          [] k = <<"1","2">> ->
                 [Name |-> "Sense Asset XL", Image |-> "Asset_Small"]
          [] k = <<"0","9">> ->
                 [Name |-> "Sense Condition Range Finder", Image |-> "Range_Small"]
          [] k = <<"0","8">> ->
                 [Name |-> "Sense Condition Alert", Image |-> "Button_Small"]
          [] k = <<"1","4">> ->
                 [Name |-> "Sense Shield/Badge/Lite", Image |-> "Social2"]
          [] k = <<"1","5">> ->
                 [Name |-> "Sense Asset +", Image |-> "Ditto_correct_200_trans"]
          [] k = <<"1","3">> ->
                 [Name |-> "Sense Asset Temp", Image |-> "Sense_BLE_Small"]
          [] k = <<"1","6">> ->
                 [Name |-> "Sense Asset", Image |-> "Sense_BLE_Small"]
          [] k = <<"1","7">> ->
                 [Name |-> "Sense Wirepass", Image |-> "Social2"]]

\* variant: an unknown type is answered with the first entry of the table
getBeaconInfo_Default(beaconType) ==
    IF beaconType \in DOMAIN beaconTypes
    THEN [err |-> nil,
          info |-> <<[BeaconType |-> beaconType,
                      Name |-> beaconTypes[beaconType].Name,
                      Image |-> beaconTypes[beaconType].Image]>>]
    ELSE [err |-> nil,
          info |-> <<[BeaconType |-> beaconType,
                      Name |-> "Please select the tag type", Image |-> ""]>>]

\* getBeaconInfo: [err, info]; a pointer to a struct is a sequence of at most
\* one record, <<>> for the nil pointer
getBeaconInfo(beaconType) ==
    IF beaconType \in DOMAIN beaconTypes
    THEN [err |-> nil,
          info |-> <<[BeaconType |-> beaconType,
                      Name |-> beaconTypes[beaconType].Name,
                      Image |-> beaconTypes[beaconType].Image]>>]
    ELSE [err |-> <<"unknown beacon type", beaconType>>, info |-> <<>>]

-----------------------------------------------------------------------------
(* The settings readers *)

\* fmt.Sprintf("%.1f", float64(fwInt)/10) for fwInt >= 0
FormatTenths(fwInt) == Itoa(fwInt \div 10) \o <<".">> \o Itoa(fwInt % 10)

\* fmt.Sprintf("%04s", str): padded with zeros on the left to 4 characters
Sprintf04s(str) ==
    IF Len(str) >= 4 THEN str ELSE [i \in 1..(4 - Len(str)) |-> "0"] \o str

\* hex[2:] + hex[:2] of a string of at least 2 characters
Rearranged(hex) == Slice(hex, 2, Len(hex)) \o Slice(hex, 0, 2)

\* fmt.Sprintf("%08b", n) for n in 0..255
Sprintf08b(n) ==
    [i \in 1..8 |-> IF (n \div (2 ^ (8 - i))) % 2 = 1 THEN "1" ELSE "0"]

\* variant: the binary digits kept in printing order
Reverse_Identity(str) == str

Reverse(str) == [i \in 1..Len(str) |-> str[Len(str) + 1 - i]]

\* the read loop of both readers: the blocks nums[lo..hi] in order into the
\* map blocks, ended by the first read that fails; halved to keep the
\* evaluation depth logarithmic: the upper half runs only when the lower half
\* returned without error, as the loop's early return.
RECURSIVE readBlocksLoop(_, _, _, _, _)
readBlocksLoop(s, nums, lo, hi, blocks) ==
    IF lo > hi THEN Ok(s, blocks)
    ELSE IF lo = hi
    THEN Then(ReadBlock(s, nums[lo]), LAMBDA r :
         IF r.err # nil THEN Wrap(r, <<"failed to read block", nums[lo]>>)
         ELSE Ok(r, (nums[lo] :> r.data) @@ blocks))
    ELSE Then(readBlocksLoop(s, nums, lo, (lo + hi) \div 2, blocks), LAMBDA left :
         IF left.err # nil THEN left
         ELSE readBlocksLoop(left, nums, ((lo + hi) \div 2) + 1, hi, left.data))

LoRaBlocks == <<8, 9, 10, 11, 12, 13, 14, 15>>

\* every slice expression of ReadLoRaSettings is within its block
LoRaSlicesOK(blocks, tagType) ==
    /\ SliceOK(blocks[15], 4, 6)
    /\ SliceOK(blocks[13], 6, 7)
    /\ SliceOK(blocks[8], 6, Len(blocks[8]))
    /\ SliceOK(blocks[9], 2, 4)
    /\ tagType = 3 => /\ SliceOK(blocks[9], 4, Len(blocks[9]))
                       /\ SliceOK(blocks[10], 6, Len(blocks[10]))
    /\ SliceOK(blocks[14], 4, 6)

\* the fields of LoRaSettings from the blocks read; DOP in tenths
LoRaFields(blocks, tagType) ==
    [HardwareVersion |-> Slice(blocks[15], 1, 2),
     FirmwareVersion |->
         FormatTenths(ParseHex(Slice(blocks[15], 2, 4), MaxInt)),
     BeaconType |-> Atoi(Slice(blocks[15], 4, 6)),
     SleepState |->
         CASE Slice(blocks[13], 2, 3) = <<"1">> -> "Asleep"
           [] Slice(blocks[13], 2, 3) = <<"0">> -> "Awake"
           [] OTHER -> "",
     MinMaxThreshold |->
         CASE Slice(blocks[13], 4, 5) = <<"0">> -> "Below"
           [] Slice(blocks[13], 4, 5) = <<"1">> -> "Above"
           [] OTHER -> "",
     RangeType |->
         CASE Slice(blocks[13], 6, 7) = <<"0">> -> "Short 1.3m"
           [] Slice(blocks[13], 6, 7) = <<"1">> -> "Long 4m"
           [] OTHER -> "",
     SpreadingFactor |->
         IF ParseHex(Slice(blocks[8], 0, 2), MaxInt) = 255 THEN <<"A","D","R">>
         ELSE Itoa(ParseHex(Slice(blocks[8], 0, 2), MaxInt)),
     DownlinkBitRate |-> Atoi(Slice(blocks[8], 2, 4)),
     UplinkBitRate |-> Atoi(Slice(blocks[8], 4, 6)),
     HighTemperature |->
         ParseHex(Slice(blocks[8], 6, Len(blocks[8])), MaxInt) - 127,
     LowTemperature |-> ParseHex(Slice(blocks[9], 0, 2), MaxInt) - 127,
     Accelerometer |-> Atoi(Slice(blocks[9], 2, 4)),
     RangeThreshold |->
         IF tagType = 3 THEN Atoi(Slice(blocks[9], 4, Len(blocks[9]))) ELSE 0,
     SensorPeriod |-> IF tagType = 3 THEN Atoi(Slice(blocks[10], 0, 2)) ELSE 0,
     RangeOffset |-> IF tagType = 3 THEN Atoi(Slice(blocks[10], 4, 6)) ELSE 0,
     MaximumRange |->
         IF tagType = 3
         THEN Atoi(Slice(blocks[10], 6, Len(blocks[10]))) * 10 ELSE 0,
     GNSSMin |-> Atoi(Slice(blocks[14], 0, 2)),
     GNSSMax |-> Atoi(Slice(blocks[14], 2, 4)),
     DOP |-> Atoi(Slice(blocks[14], 4, 6))]

ReadLoRaSettings(s, tagType) ==
    Then(readBlocksLoop(s, LoRaBlocks, 1, Len(LoRaBlocks), <<>>), LAMBDA r :
    IF r.err # nil THEN r
    ELSE IF ~LoRaSlicesOK(r.data, tagType) THEN Panic(r)
    ELSE Ok(r, <<LoRaFields(r.data, tagType)>>))

DittoBlocks == <<7, 8, 9, 13, 14, 15, 19, 20, 21, 24, 25, 26, 27, 28, 29, 30, 31>>

\* the argument of parseRefFilter
RefFilterHex(blocks) ==
    Slice(blocks[25], 2, Len(blocks[25])) \o blocks[26] \o blocks[27]
    \o blocks[28] \o Slice(blocks[29], 0, 2)

\* every slice expression of ReadDittoSettings and parseRefFilter is within
\* its string
DittoSlicesOK(blocks) ==
    /\ SliceOK(blocks[15], 4, 6)
    /\ SliceOK(blocks[13], 4, 5)
    /\ SliceOK(blocks[8], 6, Len(blocks[8]))
    /\ SliceOK(blocks[9], 2, 4)
    /\ SliceOK(blocks[14], 6, Len(blocks[14]))
    /\ SliceOK(blocks[7], 2, 4)
    /\ SliceOK(blocks[19], 6, Len(blocks[19]))
    /\ SliceOK(blocks[20], 4, Len(blocks[20]))
    /\ SliceOK(blocks[21], 6, Len(blocks[21]))
    /\ SliceOK(blocks[24], 4, Len(blocks[24]))
    /\ SliceOK(blocks[25], 2, Len(blocks[25]))
    /\ SliceOK(blocks[29], 6, Len(blocks[29]))
    /\ Len(RefFilterHex(blocks)) % 2 = 0
    /\ SliceOK(blocks[30], 6, Len(blocks[30]))
    /\ SliceOK(blocks[31], 0, 2)

\* the flag bytes of blocks 30 and 31 as 8 binary digits, last bit first
reversedFlags1Bin(blocks) ==
    Reverse(Sprintf08b(ParseHex(Slice(blocks[30], 6, Len(blocks[30])), 255)))
reversedFlags2Bin(blocks) ==
    Reverse(Sprintf08b(ParseHex(Slice(blocks[31], 0, 2), 255)))

\* the fields of DittoSettings from the blocks read; DOP in tenths
DittoFields(blocks) ==
    [HardwareVersion |-> Slice(blocks[15], 1, 2),
     FirmwareVersion |->
         FormatTenths(ParseHex(Slice(blocks[15], 2, 4), MaxInt)),
     BeaconType |-> Atoi(Slice(blocks[15], 4, 6)),
     SleepState |-> parseSleepState(Slice(blocks[13], 2, 3)),
     DebugOption |-> parseDebugOption(Slice(blocks[13], 3, 4)),
     MACOption |-> parseMACOption(Slice(blocks[13], 4, 5)),
     SpreadingFactor |-> parseSpreadingFactor(Slice(blocks[8], 0, 2)),
     DownlinkBitRate |-> Atoi(Slice(blocks[8], 2, 4)),
     UplinkBitRate |-> Atoi(Slice(blocks[8], 4, 6)),
     HighTemperature |->
         ParseHex(Slice(blocks[8], 6, Len(blocks[8])), MaxInt) - 127,
     LowTemperature |-> ParseHex(Slice(blocks[9], 0, 2), MaxInt) - 127,
     Accelerometer |-> Atoi(Slice(blocks[9], 2, 4)),
     GNSSMin |-> ParseHex(Slice(blocks[14], 0, 2), MaxInt),
     GNSSMax |-> ParseHex(Slice(blocks[14], 2, 4), MaxInt),
     DOP |-> 10 * (ParseHex(Slice(blocks[14], 4, 6), MaxInt) \div 10),
     OperationalMode |->
         ParseHex(Slice(blocks[14], 6, Len(blocks[14])), MaxInt),
     LoRaEnable |-> parseLoRaEnable(Slice(blocks[7], 0, 2)),
     LoRaRegion |-> parseLoRaRegion(Slice(blocks[7], 2, 4)),
     ABR2 |-> Atoi(Slice(blocks[19], 4, 6)),
     BLEGain |-> parseBLEGain(Slice(blocks[19], 6, Len(blocks[19]))),
     MotionMoved |->
         ParseHex(Rearranged(Sprintf04s(Slice(blocks[20], 4, Len(blocks[20])))),
                  MaxInt),
     MotionStationary |->
         ParseHex(Rearranged(Sprintf04s(Slice(blocks[21], 0, 4))), MaxInt),
     MotionAccelActivity |-> ParseHex(Slice(blocks[21], 4, 6), MaxInt),
     MotionAccelActivityThreshold |->
         ParseHex(Slice(blocks[21], 6, Len(blocks[21])), MaxInt),
     BLEAdvertisingInterval |->
         ParseHex(Rearranged(Sprintf04s(Slice(blocks[24], 0, 4))), MaxInt),
     BLERefScanInterval |->
         ParseHex(Rearranged(Sprintf04s(Slice(blocks[24], 4, Len(blocks[24])))),
                  MaxInt),
     BLERefRSSI |-> complementToDec(Slice(blocks[25], 0, 2)),
     BLERefFilter |-> parseRefFilter(RefFilterHex(blocks)),
     BLEAdvertisingType |-> parseBLEAdvertisingType(Slice(blocks[29], 2, 4)),
     PressUplink |-> parsePressUplink(Slice(blocks[29], 4, 6)),
     PingSlotPeriod |->
         parsePingSlotPeriod(Slice(blocks[29], 6, Len(blocks[29]))),
     Timeout |-> ParseHex(Slice(blocks[30], 0, 2), 127),
     BLERefMode |-> parseBLERefMode(Slice(reversedFlags1Bin(blocks), 0, 2)),
     ClassSelect |-> parseClassSelect(Slice(reversedFlags1Bin(blocks), 4, 6)),
     ConfirmedUplinks |->
         parseConfirmedUplinks(Slice(reversedFlags2Bin(blocks), 0, 1)),
     Hopping |-> parseHopping(Slice(reversedFlags2Bin(blocks), 4, 5))]

\* variant: after a failed read the settings are returned as far as they
\* were filled in, which is not at all
ReadDittoSettings_Partial(s) ==
    Then(readBlocksLoop(s, DittoBlocks, 1, Len(DittoBlocks), <<>>), LAMBDA r :
    IF r.err # nil THEN Ok(r, <<[SleepState |-> ""]>>)
    ELSE IF ~DittoSlicesOK(r.data) THEN Panic(r)
    ELSE Ok(r, <<DittoFields(r.data)>>))

ReadDittoSettings(s) ==
    Then(readBlocksLoop(s, DittoBlocks, 1, Len(DittoBlocks), <<>>), LAMBDA r :
    IF r.err # nil THEN r
    ELSE IF ~DittoSlicesOK(r.data) THEN Panic(r)
    ELSE Ok(r, <<DittoFields(r.data)>>))

\* ReadSKU: the session, with the value assigned to currentBeaconType in
\* field cbt (-1: not assigned)
ReadSKU(s) ==
    Then(ReadBlock(s, 15), LAMBDA r :
    IF r.err # nil
    THEN [ses |-> Wrap(r, <<"failed to read block 15">>), cbt |-> -1]
    ELSE IF ~SliceOK(r.data, 4, 6) THEN [ses |-> Panic(r), cbt |-> -1]
    ELSE
    Then(Slice(r.data, 4, 6), LAMBDA beaconType :
    IF ~IsHexString(beaconType)
    THEN [ses |-> Fail(r, <<"failed to parse beacon type">>), cbt |-> 0]
    ELSE
    Then(getBeaconInfo(beaconType), LAMBDA g :
    [ses |-> IF g.err = nil THEN Ok(r, g.info) ELSE Fail(r, g.err),
     cbt |-> ParseHex(beaconType, 65535)])))

-----------------------------------------------------------------------------
(* The command line: nfcRunCommands and main.  A command ends in a session *)
(* whose err is the error the function returns and whose data records      *)
(* whether the command logged a failure and the lines it printed.          *)

\* the end of a case that logged no error
Printed(s, out) ==
    [s EXCEPT !.data = [failed |-> FALSE, out |-> out], !.err = nil]

\* break after an error held in a variable err declared inside the case: the
\* function's own err is still nil at the return; a panic ends the process
Logged(s, out) ==
    [s EXCEPT !.data = [failed |-> TRUE, out |-> out],
              !.err = IF s.err = <<"panic">> THEN s.err ELSE nil]

\* break after an error assigned to the function's err
Assigned(s, out) == [s EXCEPT !.data = [failed |-> TRUE, out |-> out]]

\* strconv.ParseBool
ParseBool(str) ==
    IF str \in {<<"1">>, <<"t">>, <<"T">>, <<"T","R","U","E">>,
                <<"t","r","u","e">>, <<"T","r","u","e">>}
    THEN [ok |-> TRUE, v |-> TRUE]
    ELSE IF str \in {<<"0">>, <<"f">>, <<"F">>, <<"F","A","L","S","E">>,
                     <<"f","a","l","s","e">>, <<"F","a","l","s","e">>}
    THEN [ok |-> TRUE, v |-> FALSE]
    ELSE [ok |-> FALSE, v |-> FALSE]

Confirm == <<"c","o","n","f","i","r","m">>

\* variant: the erase case without the check of the parameter
eraseCase_NoConfirm(s, params) ==
    Then(EraseTag(s), LAMBDA e :
    IF e.err # nil THEN Logged(e, <<>>)
    ELSE
    Then(ValidateCRC(e), LAMBDA v :
    IF v.err # nil THEN Logged(v, <<"Tag erased successfully">>)
    ELSE Printed(v, <<"Tag erased successfully",
                      "Post-erase CRC validation successful">>)))

\* case "erase"
eraseCase(s, params) ==
    IF params # Confirm THEN Printed(s, <<>>)
    ELSE
    Then(EraseTag(s), LAMBDA e :
    IF e.err # nil THEN Logged(e, <<>>)
    ELSE
    Then(ValidateCRC(e), LAMBDA v :
    IF v.err # nil THEN Logged(v, <<"Tag erased successfully">>)
    ELSE Printed(v, <<"Tag erased successfully",
                      "Post-erase CRC validation successful">>)))

\* case "writelorajoinkey"
writelorajoinkeyCase(s, params) ==
    IF params = <<>> THEN Printed(s, <<>>)
    ELSE
    Then(ReadLoraJoinKey(s), LAMBDA k1 :
    IF k1.err # nil THEN Logged(k1, <<>>)
    ELSE
    Then(WriteLoraJoinKey(k1, params), LAMBDA w :
    IF w.err # nil THEN Logged(w, <<"Previous LoRa Join Key">>)
    ELSE
    Then(ReadLoraJoinKey(w), LAMBDA k2 :
    IF k2.err # nil THEN Logged(k2, <<"Previous LoRa Join Key">>)
    ELSE Printed(k2, <<"Previous LoRa Join Key", "Current LoRa Join Key",
                       "LoRa Join Key written successfully">>))))

\* case "readlora"; the values read are strings of hex digits, which
\* strconv.ParseUint and big.Int.SetString accept
readloraCase(s) ==
    Then(ReadBleMac(s), LAMBDA mac :
    IF mac.err # nil THEN Logged(mac, <<"Reading all Information:">>)
    ELSE
    Then(ReadLoraDevEui(mac), LAMBDA devEui :
    IF devEui.err # nil
    THEN Logged(devEui, <<"Reading all Information:", "BLE MAC">>)
    ELSE
    Then(ReadLoraJoinEui(devEui), LAMBDA joinEui :
    IF joinEui.err # nil
    THEN Logged(joinEui, <<"Reading all Information:", "BLE MAC", "LoRa DevEUI">>)
    ELSE
    Then(ReadLoraJoinKey(joinEui), LAMBDA joinKey :
    IF joinKey.err # nil
    THEN Logged(joinKey, <<"Reading all Information:", "BLE MAC", "LoRa DevEUI",
                           "LoRa JoinEUI">>)
    ELSE
    Then(ReadDittoSettings(joinKey), LAMBDA settings :
    IF settings.err # nil
    THEN Logged(settings, <<"Reading all Information:", "BLE MAC", "LoRa DevEUI",
                            "LoRa JoinEUI", "LoRa JoinKe">>)
    ELSE Printed(settings, <<"Reading all Information:", "BLE MAC", "LoRa DevEUI",
                             "LoRa JoinEUI", "LoRa JoinKe",
                             "Completed reading LoRa information">>))))))

\* case "readmacs"
readmacsCase(s) ==
    Then(ReadLoraDevEui(s), LAMBDA loraMac :
    IF loraMac.err # nil THEN Logged(loraMac, <<>>)
    ELSE
    Then(ReadBleMac(loraMac), LAMBDA bleMac :
    IF bleMac.err # nil THEN Logged(bleMac, <<>>)
    ELSE Printed(bleMac, <<"Lora MAC", "BLE MAC">>)))

\* nfcRunCommands for the commands whose card operations are in nfc.go
nfcRunCommands(s, command, params) ==
    CASE command = "erase" -> eraseCase(s, params)
      [] command = "validateCrc" ->
            Then(ValidateCRC(s), LAMBDA v :
            IF v.err # nil THEN Assigned(v, <<>>) ELSE Printed(v, <<>>))
      [] command = "readblelocal" ->
            Then(ReadBLELocalName(s), LAMBDA name :
            IF name.err # nil THEN Logged(name, <<>>)
            ELSE Printed(name, <<"BLE Local Name">>))
      [] command = "writeblelocal" ->
            IF params = <<>> THEN Printed(s, <<>>)
            ELSE
            Then(WriteBLELocalName(s, params), LAMBDA w :
            IF w.err # nil THEN Assigned(w, <<>>)
            ELSE Printed(w, <<"BLE local name written successfully">>))
      [] command = "writelorajoineui" ->
            IF params = <<>> THEN Printed(s, <<>>)
            ELSE
            Then(WriteLoraJoinEui(s, params), LAMBDA w :
            IF w.err # nil THEN Assigned(w, <<>>)
            ELSE Printed(w, <<"LoRa JoinEUI written successfully">>))
      [] command = "writelorajoinkey" -> writelorajoinkeyCase(s, params)
      [] command = "writeloradeveui" ->
            IF params = <<>> THEN Printed(s, <<>>)
            ELSE
            Then(WriteLoraDevEui(s, params), LAMBDA w :
            IF w.err # nil THEN Assigned(w, <<>>)
            ELSE Printed(w, <<"LoRa DevEUI written successfully">>))
      [] command = "readlora" -> readloraCase(s)
      [] command = "sleep" ->
            IF params = <<>> THEN Printed(s, <<>>)
            ELSE IF ~ParseBool(params).ok THEN Logged(s, <<>>)
            ELSE
            Then(WriteTagSleepBit(s, ParseBool(params).v), LAMBDA w :
            IF w.err # nil THEN Logged(w, <<>>) ELSE Printed(w, <<>>))
      [] command = "tagpostbit" ->
            IF params = <<>> THEN Printed(s, <<>>)
            ELSE IF ~ParseBool(params).ok THEN Logged(s, <<>>)
            ELSE
            Then(WriteTagPostBit(s, ParseBool(params).v), LAMBDA w :
            IF w.err # nil THEN Logged(w, <<>>)
            ELSE Printed(w, <<"Tag post bit written successfully">>))
      [] command = "readmacs" -> readmacsCase(s)
      [] command = "cfgr" ->
            Then(ReadDittoSettings(s), LAMBDA settings :
            IF settings.err # nil THEN Logged(settings, <<>>)
            ELSE Printed(settings, <<>>))
      [] OTHER -> Printed(s, <<>>)

\* formatKey
formatKey(key) == ToUpper(SelectSeq(key, LAMBDA c : c \notin {":", " "}))

\* main, the switch on params that formats the parameter: the value of
\* params afterwards, <<"fatal">> for log.Fatalf
formattedParam(params) ==
    IF params \in {<<"w","r","i","t","e","l","o","r","a","d","e","v","e","u","i">>,
                   <<"w","r","i","t","e","l","o","r","a","j","o","i","n","e","u","i">>}
    THEN IF Len(formatKey(params)) # 16 THEN <<"fatal">> ELSE formatKey(params)
    ELSE IF params = <<"w","r","i","t","e","l","o","r","a","j","o","i","n","k","e","y">>
    THEN IF Len(formatKey(params)) # 32 THEN <<"fatal">> ELSE formatKey(params)
    ELSE params

\* main, the loop over the commands from position i on; ran lists the
\* commands started so far, each with the flag of a logged failure
RECURSIVE runLoop(_, _, _, _, _)
runLoop(s, commands, i, params, ran) ==
    IF i > Len(commands) THEN [ses |-> s, ran |-> ran, stopped |-> FALSE]
    ELSE
    Then(nfcRunCommands(s, commands[i], params), LAMBDA r :
    Then(Append(ran, [cmd |-> commands[i], failed |-> r.data.failed]), LAMBDA ran1 :
    IF r.err # nil THEN [ses |-> r, ran |-> ran1, stopped |-> TRUE]
    ELSE runLoop(r, commands, i + 1, params, ran1)))

\* main from the parameter formatting on, with the command list as
\* strings.Split gives it; disconnected: DisconnectUnpowerCard succeeds.
\* The data of the session: the commands started and whether the final
\* line SUCCESS was printed.
main(t, f, commands, params, disconnected) ==
    IF formattedParam(params) = <<"fatal">>
    THEN Ok(Session(t, f, FALSE), [ran |-> <<>>, success |-> FALSE])
    ELSE
    Then(getUID(Session(t, f, FALSE)), LAMBDA u :
    IF u.err # nil THEN Ok(u, [ran |-> <<>>, success |-> FALSE])
    ELSE
    Then(runLoop(u, commands, 1, formattedParam(params), <<>>), LAMBDA l :
    IF l.stopped
    THEN [l.ses EXCEPT !.data = [ran |-> l.ran, success |-> FALSE]]
    ELSE Ok(l.ses, [ran |-> l.ran, success |-> disconnected])))

-----------------------------------------------------------------------------
(* Tags and inputs *)

\* the configured tag listed in ReadDittoSettings, blocks 0..47
SampleConfig == <<
    <<83, 112, 101, 99>>, <<116, 114, 101, 49>>, <<0, 0, 0, 0>>, <<86, 67, 32, 64>>,
    <<56, 6, 95, 57>>, <<46, 54, 23, 83>>, <<69, 2, 51, 12>>, <<1, 8, 0, 0>>,
    <<0, 1, 0, 0>>, <<0, 5, 0, 0>>, <<0, 0, 0, 0>>, <<12, 30, 247, 0>>,
    <<0, 0, 13, 39>>, <<16, 16, 0, 0>>, <<0, 15, 50, 0>>, <<3, 74, 21, 4>>,
    <<250, 0, 166, 14>>, <<142, 18, 44, 1>>, <<227, 66, 53, 100>>, <<166, 206, 0, 244>>,
    <<0, 0, 2, 0>>, <<5, 0, 10, 4>>, <<83, 80, 52, 48>>, <<54, 54, 0, 0>>,
    <<196, 9, 16, 39>>, <<166, 79, 109, 110>>, <<105, 45, 73, 68>>, <<0, 0, 0, 0>>,
    <<0, 0, 0, 0>>, <<0, 0, 0, 7>>, <<60, 0, 0, 2>>, <<1, 0, 0, 0>>,
    <<0, 0, 0, 0>>, <<0, 0, 0, 0>>, <<0, 0, 0, 0>>, <<0, 0, 0, 0>>,
    <<0, 0, 0, 0>>, <<0, 0, 0, 0>>, <<0, 0, 0, 0>>, <<0, 0, 0, 0>>,
    <<0, 0, 0, 0>>, <<0, 0, 0, 0>>, <<0, 0, 0, 0>>, <<0, 0, 0, 0>>,
    <<0, 0, 0, 0>>, <<0, 0, 0, 0>>, <<0, 0, 0, 0>>, <<0, 0, 0, 0>>>>

\* the 192 bytes of blocks 0..47 in ascending address order
ConfigBytes(t) == [i \in 1..192 |-> t[(i - 1) \div 4][((i - 1) % 4) + 1]]

\* the stored CRC: low byte first, then high byte, in the first two bytes
DecodeStoredCRC(block) == block[2] * 256 + block[1]

CrcConsistent(t) == DecodeStoredCRC(t[48]) = calculateCRC(ConfigBytes(t))

CrcBlock(t) ==
    LET crc == calculateCRC(ConfigBytes(t))
    IN  <<crc % 256, crc \div 256, 0, 0>>

\* the sample with the CRC that belongs to it
SampleTag ==
    LET cfg == [b \in 0..47 |-> SampleConfig[b + 1]]
    IN  [b \in 0..48 |-> IF b = 48 THEN CrcBlock(cfg) ELSE cfg[b]]

\* a blank tag: every block zero, block 48 included, so its CRC is stale
BlankTag == [b \in 0..48 |-> <<0, 0, 0, 0>>]

InitTags == {SampleTag, BlankTag}

\* DevEUI arguments: a valid one in lower case; one whose first half is block
\* 11 of the sample; one whose first half is block 11 of the sample exclusive-
\* or the CRC polynomial 0x00011021; one whose second half holds a character
\* that is no hex digit; one of the wrong length
DevEuiValid == <<"0","c","1","e","f","7","a","5","b","6","0","0","0","d","2","7">>
DevEuiBadHex == <<"0","1","2","3","4","5","6","7","8","9","A","B","C","D","E","G">>
DevEuiShort == <<"0","C","1","E","F","7","0","0">>
DevEuiSamePrefix == <<"0","C","1","E","F","7","0","0","0","0","0","0","0","D","2","8">>
DevEuiCollide == <<"0","C","1","F","E","7","2","1","0","0","0","0","0","D","2","8">>
DevEuiInputs ==
    {DevEuiValid, DevEuiSamePrefix, DevEuiCollide, DevEuiBadHex, DevEuiShort}

\* JoinEUI arguments: 16 hex characters, 10 characters, 3 characters
JoinEuiValid == <<"7","0","B","3","D","5","7","E","D","0","0","0","0","0","0","1">>
JoinEuiTen == <<"0","1","2","3","4","5","6","7","8","9">>
JoinEuiThree == <<"1","2","3">>
JoinEuiInputs == {JoinEuiValid, JoinEuiTen, JoinEuiThree}

\* join keys: 32 hex characters, 33, 30 and 7 characters
JoinKeyValid == <<"0","0","1","1","2","2","3","3","4","4","5","5","6","6","7","7","8","8","9","9","A","A","B","B","C","C","D","D","E","E","F","F">>
JoinKeyLong == <<"0","0","1","1","2","2","3","3","4","4","5","5","6","6","7","7","8","8","9","9","A","A","B","B","C","C","D","D","E","E","F","F","0">>
JoinKeyShort == <<"0","0","1","1","2","2","3","3","4","4","5","5","6","6","7","7","8","8","9","9","A","A","B","B","C","C","D","D","E","E">>
JoinKeySeven == <<"0","0","1","1","2","2","3">>
JoinKeyInputs == {JoinKeyValid, JoinKeyLong, JoinKeyShort, JoinKeySeven}

\* BLE local names: 4 characters and 9 characters
NameInputs == {<<"T","a","g","1">>, <<"L","o","n","g","N","a","m","e","9">>}

\* transport faults drawn for the operations
WriteFaults == {NoFault, Fault("write", 12, "chan"), Fault("write", 48, "sw")}
ReadFaults == {NoFault, Fault("read", 47, "short")}

IsMutation(o) ==
    o \in {"WriteLoraDevEui", "WriteLoraJoinEui", "WriteLoraJoinKey",
           "WriteBLELocalName", "WriteTagSleepBit", "WriteTagPostBit"}

-----------------------------------------------------------------------------
(* The state machine: one action per card operation *)

\* the operation o with argument a ran and ended in session r
Ran(o, a, r) ==
    /\ nops' = nops + 1
    /\ op' = o
    /\ arg' = a
    /\ fault' = r.f
    /\ tag' = r.tag
    /\ sent' = r.sent
    /\ rcvd' = r.rcvd
    /\ result' = [err |-> r.err, val |-> r.data]
    /\ pre' = tag
    /\ prev' = [op |-> op, arg |-> arg, fault |-> fault, err |-> result.err]

\* the same for an operation that assigns neither m.uid nor currentBeaconType
Returns(o, a, r) ==
    /\ Ran(o, a, r)
    /\ UNCHANGED <<uid, currentBeaconType>>

Init ==
    /\ tag \in InitTags
    /\ sent = <<>>
    /\ op = "init"
    /\ arg = <<>>
    /\ fault = NoFault
    /\ result = [err |-> nil, val |-> <<>>]
    /\ pre = tag
    /\ prev = [op |-> "init", arg |-> <<>>, fault |-> NoFault, err |-> nil]
    /\ nops = 0
    /\ rcvd = <<>>
    /\ uid = <<>>
    /\ currentBeaconType = 0

WriteLoraDevEuiOp ==
    \E x \in DevEuiInputs, f \in WriteFaults :
        /\ nops < MaxOps
        /\ x \in {DevEuiBadHex, DevEuiShort} => f = NoFault
        /\ x \in {DevEuiSamePrefix, DevEuiCollide} => f.block = 12
        /\ Returns("WriteLoraDevEui", x, WriteLoraDevEui(Session(tag, f, FALSE), x))

WriteLoraJoinEuiOp ==
    \E x \in JoinEuiInputs, lenient \in BOOLEAN :
        /\ nops < MaxOps
        /\ x # JoinEuiTen => ~lenient
        /\ Returns("WriteLoraJoinEui", x,
                   WriteLoraJoinEui(Session(tag, NoFault, lenient), x))

WriteLoraJoinKeyOp ==
    \E x \in JoinKeyInputs, lenient \in BOOLEAN :
        /\ nops < MaxOps
        /\ x # JoinKeyShort => ~lenient
        /\ Returns("WriteLoraJoinKey", x,
                   WriteLoraJoinKey(Session(tag, NoFault, lenient), x))

WriteBLELocalNameOp ==
    \E x \in NameInputs :
        /\ nops < MaxOps
        /\ Returns("WriteBLELocalName", x,
                   WriteBLELocalName(Session(tag, NoFault, FALSE), x))

WriteTagSleepBitOp ==
    \E v \in BOOLEAN :
        /\ nops < MaxOps
        /\ Returns("WriteTagSleepBit", v,
                   WriteTagSleepBit(Session(tag, NoFault, FALSE), v))

WriteTagPostBitOp ==
    \E v \in BOOLEAN :
        /\ nops < MaxOps
        /\ Returns("WriteTagPostBit", v,
                   WriteTagPostBit(Session(tag, NoFault, FALSE), v))

EraseTagOp ==
    \E f \in WriteFaults :
        /\ nops < MaxOps
        /\ f.block # 12
        /\ Returns("EraseTag", <<>>, EraseTag(Session(tag, f, FALSE)))

CalculateAndWriteCRCOp ==
    /\ nops < MaxOps
    /\ Returns("CalculateAndWriteCRC", <<>>,
               CalculateAndWriteCRC(Session(tag, NoFault, FALSE)))

ValidateCRCOp ==
    \E f \in ReadFaults :
        /\ nops < MaxOps
        /\ Returns("ValidateCRC", <<>>, ValidateCRC(Session(tag, f, FALSE)))

ReadLoraDevEuiOp ==
    /\ nops < MaxOps
    /\ Returns("ReadLoraDevEui", <<>>,
               ReadLoraDevEui(Session(tag, NoFault, FALSE)))

Next ==
    \/ WriteLoraDevEuiOp
    \/ WriteLoraJoinEuiOp
    \/ WriteLoraJoinKeyOp
    \/ WriteBLELocalNameOp
    \/ WriteTagSleepBitOp
    \/ WriteTagPostBitOp
    \/ EraseTagOp
    \/ CalculateAndWriteCRCOp
    \/ ValidateCRCOp
    \/ ReadLoraDevEuiOp

Spec == Init /\ [][Next]_vars

-----------------------------------------------------------------------------
(* The CRC storage codec on its own: every 16-bit value is encoded by      *)
(* reverseCRC, written to block 48, read back and decoded as ValidateCRC   *)
(* decodes it.                                                             *)

InitCodec ==
    /\ tag = BlankTag
    /\ sent = <<>>
    /\ op = "init"
    /\ arg \in 0..65535
    /\ fault = NoFault
    /\ result = [err |-> nil, val |-> <<>>]
    /\ pre = tag
    /\ prev = [op |-> "init", arg |-> <<>>, fault |-> NoFault, err |-> nil]
    /\ nops = 0
    /\ rcvd = <<>>
    /\ uid = <<>>
    /\ currentBeaconType = 0

\* CalculateAndWriteCRC from the computed crc on: encode, write block 48
ReverseCRCOp ==
    /\ op = "init"
    /\ \E w \in {WriteBlock(Session(tag, NoFault, FALSE), 48, reverseCRC(arg))} :
           /\ op' = "reverseCRC"
           /\ tag' = w.tag
           /\ sent' = w.sent
           /\ rcvd' = w.rcvd
           /\ result' = [err |-> w.err, val |-> reverseCRC(arg)]
    /\ pre' = tag
    /\ prev' = [op |-> op, arg |-> arg, fault |-> fault, err |-> result.err]
    /\ nops' = nops + 1
    /\ UNCHANGED <<arg, fault, uid, currentBeaconType>>

\* ValidateCRC from the read of block 48 on: read, decode
StoredCRCOp ==
    /\ op = "reverseCRC"
    /\ \E r \in {ReadBlock(Session(tag, NoFault, FALSE), 48)} :
           /\ op' = "storedCRC"
           /\ tag' = r.tag
           /\ sent' = r.sent
           /\ rcvd' = r.rcvd
           /\ result' = [err |-> r.err,
                         val |-> IF r.err = nil /\ SliceOK(r.data, 2, 4)
                                 THEN storedCRCOf(r.data) ELSE -1]
    /\ pre' = tag
    /\ prev' = [op |-> op, arg |-> arg, fault |-> fault, err |-> result.err]
    /\ nops' = nops + 1
    /\ UNCHANGED <<arg, fault, uid, currentBeaconType>>

NextCodec == ReverseCRCOp \/ StoredCRCOp

SpecCodec == InitCodec /\ [][NextCodec]_vars

-----------------------------------------------------------------------------
(* The checksum on its own: tags that differ in one block, at every block *)
(* address, read by ReadConfigurationForCRC, sealed by                     *)
(* CalculateAndWriteCRC and checked by ValidateCRC.                        *)

CrcPatterns == {<<255, 255, 255, 255>>, <<128, 0, 0, 1>>}
CrcTags ==
    {[SampleTag EXCEPT ![b] = <<1, 2, 3, 4>>] : b \in 0..47}
    \cup {[SampleTag EXCEPT ![b] = p] : b \in {0, 47}, p \in CrcPatterns}

InitCrc ==
    /\ tag \in CrcTags
    /\ sent = <<>>
    /\ op = "init"
    /\ arg = <<>>
    /\ fault = NoFault
    /\ result = [err |-> nil, val |-> <<>>]
    /\ pre = tag
    /\ prev = [op |-> "init", arg |-> <<>>, fault |-> NoFault, err |-> nil]
    /\ nops = 0
    /\ rcvd = <<>>
    /\ uid = <<>>
    /\ currentBeaconType = 0

ReadConfigurationForCRCOp ==
    /\ nops < MaxOps
    /\ Returns("ReadConfigurationForCRC", <<>>,
               ReadConfigurationForCRC(Session(tag, NoFault, FALSE)))

NextCrc ==
    \/ ReadConfigurationForCRCOp
    \/ CalculateAndWriteCRCOp
    \/ ValidateCRCOp

SpecCrc == InitCrc /\ [][NextCrc]_vars

-----------------------------------------------------------------------------
(* The block operations on their own: ReadBlock, WriteBlock and getUID     *)
(* under every answer of the reader.                                       *)

\* block numbers: below the range, inside it, its last block, above it
BlockInputs == {-1, 13, 48, 49}

\* 4-byte payloads as 8 hex characters, in lower and in upper case
PayloadLower == <<"0","c","1","e","f","7","a","5">>
PayloadUpper == <<"0","1","2","3","A","B","C","D">>
PayloadInputs == {PayloadLower, PayloadUpper}

FaultModes == {"chan", "short", "empty", "sw", "sw1", "sw2"}
BlockFaults ==
    {NoFault} \cup {Fault(i, 13, m) : i \in {"read", "write"}, m \in FaultModes}
UidFaults == {NoFault} \cup {Fault("uid", 0, m) : m \in FaultModes}

ReadBlockOp ==
    \E n \in BlockInputs, f \in BlockFaults :
        /\ nops < MaxOps
        /\ f # NoFault => (f.ins = "read" /\ f.block = n)
        /\ Returns("ReadBlock", [block |-> n, data |-> <<>>],
                   ReadBlock(Session(tag, f, FALSE), n))

WriteBlockOp ==
    \E n \in BlockInputs, p \in PayloadInputs, f \in BlockFaults :
        /\ nops < MaxOps
        /\ f # NoFault => (f.ins = "write" /\ f.block = n /\ p = PayloadLower)
        /\ Returns("WriteBlock", [block |-> n, data |-> p],
                   WriteBlock(Session(tag, f, FALSE), n, p))

GetUIDOp ==
    \E f \in UidFaults :
        /\ nops < MaxOps
        /\ \E r \in {getUID(Session(tag, f, FALSE))} :
               /\ Ran("getUID", <<>>, IF r.err = nil THEN Ok(r, <<>>) ELSE r)
               /\ uid' = IF r.err = nil THEN r.data ELSE uid
        /\ UNCHANGED currentBeaconType

NextBlock ==
    \/ ReadBlockOp
    \/ WriteBlockOp
    \/ GetUIDOp

SpecBlock == Init /\ [][NextBlock]_vars

-----------------------------------------------------------------------------
(* The settings readers on their own: tags that hold each BLE gain code    *)
(* and SKU code with a hex letter, read by ReadDittoSettings,              *)
(* ReadLoRaSettings, ReadSKU and ReadBlock, with WriteTagSleepBit to set   *)
(* the sleep nibble and reads that fail at the first, a middle and the     *)
(* last block of each reader.                                              *)

GainBytes == {216, 236, 240, 244, 248, 252}
SkuBytes == {13, 255}

SettingsTags ==
    {[SampleTag EXCEPT ![19] = <<166, 206, 0, g>>] : g \in GainBytes}
    \cup {[SampleTag EXCEPT ![15] = <<3, 74, k, 4>>] : k \in SkuBytes}
    \cup {BlankTag}

InitSettings ==
    /\ tag \in SettingsTags
    /\ sent = <<>>
    /\ op = "init"
    /\ arg = <<>>
    /\ fault = NoFault
    /\ result = [err |-> nil, val |-> <<>>]
    /\ pre = tag
    /\ prev = [op |-> "init", arg |-> <<>>, fault |-> NoFault, err |-> nil]
    /\ nops = 0
    /\ rcvd = <<>>
    /\ uid = <<>>
    /\ currentBeaconType = 0

DittoFaults ==
    {NoFault, Fault("read", 7, "chan"), Fault("read", 19, "sw"),
     Fault("read", 31, "chan")}
LoRaFaults ==
    {NoFault, Fault("read", 8, "sw"), Fault("read", 13, "chan"),
     Fault("read", 15, "sw")}
SkuFaults == {NoFault, Fault("read", 15, "chan"), Fault("read", 15, "sw")}

\* the tag types of the caller: 3 is Sense Range
TagTypes == {1, 3}

ReadDittoSettingsOp ==
    \E f \in DittoFaults :
        /\ nops < MaxOps
        /\ Returns("ReadDittoSettings", <<>>,
                   ReadDittoSettings(Session(tag, f, FALSE)))

ReadLoRaSettingsOp ==
    \E tagType \in TagTypes, f \in LoRaFaults :
        /\ nops < MaxOps
        /\ f # NoFault => tagType = 3
        /\ Returns("ReadLoRaSettings", <<tagType>>,
                   ReadLoRaSettings(Session(tag, f, FALSE), tagType))

ReadSKUOp ==
    \E f \in SkuFaults :
        /\ nops < MaxOps
        /\ \E r \in {ReadSKU(Session(tag, f, FALSE))} :
               /\ Ran("ReadSKU", <<>>, r.ses)
               /\ currentBeaconType' =
                      IF r.cbt >= 0 THEN r.cbt ELSE currentBeaconType
        /\ UNCHANGED uid

NextSettings ==
    \/ WriteTagSleepBitOp
    \/ ReadDittoSettingsOp
    \/ ReadLoRaSettingsOp
    \/ ReadSKUOp
    \/ ReadBlockOp

SpecSettings == InitSettings /\ [][NextSettings]_vars

-----------------------------------------------------------------------------
(* The mode flags on their own: every value of the last byte of block 30   *)
(* and of the first byte of block 31, read by ReadDittoSettings.           *)

FlagTags ==
    {[SampleTag EXCEPT ![30] = <<60, 0, 0, b>>, ![31] = <<255 - b, 0, 0, 0>>] :
        b \in 0..255}

InitFlags ==
    /\ tag \in FlagTags
    /\ sent = <<>>
    /\ op = "init"
    /\ arg = <<>>
    /\ fault = NoFault
    /\ result = [err |-> nil, val |-> <<>>]
    /\ pre = tag
    /\ prev = [op |-> "init", arg |-> <<>>, fault |-> NoFault, err |-> nil]
    /\ nops = 0
    /\ rcvd = <<>>
    /\ uid = <<>>
    /\ currentBeaconType = 0

NextFlags == ReadDittoSettingsOp

SpecFlags == InitFlags /\ [][NextFlags]_vars

-----------------------------------------------------------------------------
(* The BLE local name on its own: names of 0 to 9 characters and every     *)
(* one-character name of the alphabet, written by WriteBLELocalName and    *)
(* read by ReadBLELocalName.                                               *)

NameAlphabet ==
    {AsciiDigit[i] : i \in 1..10} \cup {AsciiUpper[i] : i \in 1..26}
    \cup {AsciiLower[i] : i \in 1..26} \cup {":", " "}

LocalNames ==
    {<<>>, <<"T","a","g","1">>, <<"T","a","g"," ","1",":","x">>,
     <<"S","E","N","S","O","R","0","1">>,
     <<"L","o","n","g","N","a","m","e","9">>}
    \cup {<<c>> : c \in NameAlphabet}

NameFaults == {NoFault, Fault("write", 23, "sw"), Fault("read", 23, "chan")}

WriteLocalNameOp ==
    \E name \in LocalNames, f \in NameFaults :
        /\ nops < MaxOps
        /\ Len(name) = 1 => (op = "init" /\ f = NoFault)
        /\ f # NoFault => (f.ins = "write" /\ name = <<"T","a","g","1">>)
        /\ Returns("WriteBLELocalName", name,
                   WriteBLELocalName(Session(tag, f, FALSE), name))

ReadBLELocalNameOp ==
    \E f \in NameFaults :
        /\ nops < MaxOps
        /\ f # NoFault => f.ins = "read"
        /\ Returns("ReadBLELocalName", <<>>,
                   ReadBLELocalName(Session(tag, f, FALSE)))

NextName ==
    \/ WriteLocalNameOp
    \/ ReadBLELocalNameOp

SpecName == Init /\ [][NextName]_vars

-----------------------------------------------------------------------------
(* ReadLoraInfo on its own: tags with a matching and with a stale CRC,     *)
(* reads that fail in each of its four parts, and the operations that      *)
(* bring the CRC up to date.                                               *)

InfoFaults ==
    {NoFault, Fault("read", 11, "chan"), Fault("read", 0, "sw"),
     Fault("read", 5, "chan"), Fault("read", 20, "chan"),
     Fault("read", 48, "sw")}

ReadLoraInfoOp ==
    \E f \in InfoFaults :
        /\ nops < MaxOps
        /\ Returns("ReadLoraInfo", <<>>, ReadLoraInfo(Session(tag, f, FALSE)))

NextInfo ==
    \/ ReadLoraInfoOp
    \/ CalculateAndWriteCRCOp
    \/ WriteTagPostBitOp

SpecInfo == Init /\ [][NextInfo]_vars

-----------------------------------------------------------------------------
(* Block answers of the wrong length: a read answered with status 90 00    *)
(* and 1 or 5 bytes of data, in every operation that decodes the block.    *)

\* the answer to the read of block b has the wrong length, or none has
LengthFaults(b) ==
    {NoFault, Fault("read", b, "trunc"), Fault("read", b, "long")}

DecodeDevEuiOp ==
    \E f \in LengthFaults(12) :
        /\ nops < MaxOps
        /\ Returns("ReadLoraDevEui", <<>>,
                   ReadLoraDevEui(Session(tag, f, FALSE)))

DecodeBleMacOp ==
    \E f \in LengthFaults(19) :
        /\ nops < MaxOps
        /\ Returns("ReadBleMac", <<>>, ReadBleMac(Session(tag, f, FALSE)))

DecodeMACAddressOp ==
    \E f \in LengthFaults(11) :
        /\ nops < MaxOps
        /\ Returns("ReadMACAddress", <<>>,
                   ReadMACAddress(Session(tag, f, FALSE)))

DecodeSKUOp ==
    \E f \in LengthFaults(15) :
        /\ nops < MaxOps
        /\ \E r \in {ReadSKU(Session(tag, f, FALSE))} :
               /\ Ran("ReadSKU", <<>>, r.ses)
               /\ currentBeaconType' =
                      IF r.cbt >= 0 THEN r.cbt ELSE currentBeaconType
        /\ UNCHANGED uid

DecodeDittoSettingsOp ==
    \E f \in LengthFaults(13) :
        /\ nops < MaxOps
        /\ Returns("ReadDittoSettings", <<>>,
                   ReadDittoSettings(Session(tag, f, FALSE)))

DecodeLoRaSettingsOp ==
    \E f \in LengthFaults(13) :
        /\ nops < MaxOps
        /\ Returns("ReadLoRaSettings", <<3>>,
                   ReadLoRaSettings(Session(tag, f, FALSE), 3))

DecodeCRCOp ==
    \E f \in LengthFaults(48) :
        /\ nops < MaxOps
        /\ Returns("ValidateCRC", <<>>, ValidateCRC(Session(tag, f, FALSE)))

DecodeSleepBitOp ==
    \E v \in BOOLEAN, f \in LengthFaults(13) :
        /\ nops < MaxOps
        /\ f # NoFault => v
        /\ Returns("WriteTagSleepBit", v,
                   WriteTagSleepBit(Session(tag, f, FALSE), v))

NextLength ==
    \/ DecodeDevEuiOp
    \/ DecodeBleMacOp
    \/ DecodeMACAddressOp
    \/ DecodeSKUOp
    \/ DecodeDittoSettingsOp
    \/ DecodeLoRaSettingsOp
    \/ DecodeCRCOp
    \/ DecodeSleepBitOp

SpecLength == Init /\ [][NextLength]_vars

-----------------------------------------------------------------------------
(* The erase command on its own, with the parameters of the command line   *)

\* -param values: the confirmation, none, and three that differ from it
EraseParams ==
    {Confirm, <<>>, <<"C","O","N","F","I","R","M">>,
     <<"c","o","n","f","i","r","m"," ">>, <<"y","e","s">>}

\* faults of the fill, of the CRC write and of the validation
EraseFaults ==
    {NoFault, Fault("write", 12, "chan"), Fault("write", 48, "sw"),
     Fault("read", 48, "chan")}

EraseCommandOp ==
    \E p \in EraseParams, f \in EraseFaults :
        /\ nops < MaxOps
        /\ p # Confirm => f = NoFault
        /\ Returns("erase", p, nfcRunCommands(Session(tag, f, FALSE), "erase", p))

NextErase ==
    \/ EraseCommandOp
    \/ WriteTagPostBitOp
    \/ ValidateCRCOp

SpecErase == Init /\ [][NextErase]_vars

-----------------------------------------------------------------------------
(* Runs of the program: a command list, a parameter and one fault each     *)

True == <<"t","r","u","e">>

\* a command list whose first command meets a fault in its card operation
FailingRuns ==
    {[commands |-> <<"erase", "readblelocal">>, params |-> Confirm,
      f |-> Fault("write", 12, "chan")],
     [commands |-> <<"validateCrc", "readblelocal">>, params |-> <<>>,
      f |-> Fault("read", 47, "short")],
     [commands |-> <<"readblelocal", "readmacs">>, params |-> <<>>,
      f |-> Fault("read", 23, "chan")],
     [commands |-> <<"writeblelocal", "readmacs">>, params |-> <<"T","a","g","1">>,
      f |-> Fault("write", 23, "sw")],
     [commands |-> <<"writelorajoineui", "readblelocal">>, params |-> JoinEuiValid,
      f |-> Fault("write", 1, "sw")],
     [commands |-> <<"writelorajoinkey", "readblelocal">>, params |-> JoinKeyValid,
      f |-> Fault("write", 5, "chan")],
     [commands |-> <<"writeloradeveui", "readblelocal">>, params |-> DevEuiValid,
      f |-> Fault("write", 12, "chan")],
     [commands |-> <<"readlora", "readblelocal">>, params |-> <<>>,
      f |-> Fault("read", 19, "chan")],
     [commands |-> <<"sleep", "readblelocal">>, params |-> True,
      f |-> Fault("write", 13, "sw")],
     [commands |-> <<"tagpostbit", "readblelocal">>, params |-> True,
      f |-> Fault("write", 9, "sw")],
     [commands |-> <<"readmacs", "readblelocal">>, params |-> <<>>,
      f |-> Fault("read", 12, "chan")],
     [commands |-> <<"cfgr", "readblelocal">>, params |-> <<>>,
      f |-> Fault("read", 30, "chan")]}

\* command lists that meet no fault
CleanRuns ==
    {[commands |-> <<"sleep", "validateCrc", "readmacs">>, params |-> True,
      f |-> NoFault],
     [commands |-> <<"readblelocal", "cfgr", "validateCrc">>, params |-> <<>>,
      f |-> NoFault],
     [commands |-> <<"erase", "readlora">>, params |-> Confirm, f |-> NoFault]}

\* one run of the program; the card object it creates ends with the process
MainOp ==
    \E run \in FailingRuns \cup CleanRuns, disconnected \in BOOLEAN :
        /\ nops < MaxOps
        /\ ~disconnected => run.f = NoFault
        /\ Returns("main", [commands |-> run.commands, params |-> run.params],
                   main(tag, run.f, run.commands, run.params, disconnected))

NextMain == MainOp

SpecMain == Init /\ [][NextMain]_vars

-----------------------------------------------------------------------------
(* Two callers of WriteLoraJoinKey on one card object.  Every exchange is  *)
(* one step, so the exchanges of the two calls are serialized and may      *)
(* alternate in any order.  arg holds, for each caller, the position of    *)
(* its call: pc (idle, write: in the loop over blocks 3..6, read: in the   *)
(* loop of ReadConfigurationForCRC, crc: before the write of block 48,     *)
(* done: returned), the loop index i, the key, the bytes read so far and   *)
(* the error returned.                                                     *)

Callers == {"A", "B"}

\* a second key, which differs from JoinKeyValid in blocks 3 and 6
JoinKeyOther == <<"F","F","1","1","2","2","3","3","4","4","5","5","6","6","7","7","8","8","9","9","A","A","B","B","C","C","D","D","E","E","0","0">>

KeyOf(c) == IF c = "A" THEN JoinKeyValid ELSE JoinKeyOther

Idle == [pc |-> "idle", i |-> 0, key |-> <<>>, nfcData |-> <<>>, err |-> nil]

Returned(e) == [pc |-> "done", i |-> 0, key |-> <<>>, nfcData |-> <<>>, err |-> e]

InitShared ==
    /\ tag \in InitTags
    /\ sent = <<>>
    /\ op = "init"
    /\ arg = [c \in Callers |-> Idle]
    /\ fault = NoFault
    /\ result = [err |-> nil, val |-> <<>>]
    /\ pre = tag
    /\ prev = [op |-> "init", arg |-> <<>>, fault |-> NoFault, err |-> nil]
    /\ nops = 0
    /\ rcvd = <<>>
    /\ uid = <<>>
    /\ currentBeaconType = 0

\* caller c made the exchange that ended in session r and is now at st
Exchanged(o, c, r, st) ==
    /\ op' = o
    /\ arg' = [arg EXCEPT ![c] = st]
    /\ tag' = r.tag
    /\ sent' = r.sent
    /\ rcvd' = r.rcvd
    /\ result' = [err |-> st.err, val |-> <<c>>]
    /\ UNCHANGED <<fault, pre, prev, uid, currentBeaconType>>

\* WriteLoraJoinKey from its entry to the write of block 3
CallWriteLoraJoinKeyOp ==
    \E c \in Callers :
        /\ nops < MaxOps
        /\ arg[c].pc \in {"idle", "done"}
        /\ nops' = nops + 1
        /\ Len(KeyOf(c)) <= 32
        /\ Then(WriteBlock(Session(tag, NoFault, FALSE), 3, Slice(KeyOf(c), 0, 8)),
                LAMBDA w :
                Exchanged("WriteLoraJoinKey", c, w,
                          IF w.err # nil
                          THEN Returned(<<"failed to read block", 3>> \o w.err)
                          ELSE [pc |-> "write", i |-> 4, key |-> KeyOf(c),
                                nfcData |-> <<>>, err |-> nil]))

\* WriteLoraJoinKey, one pass of the loop for i = 4..6
WriteKeyBlockOp ==
    \E c \in Callers :
        /\ arg[c].pc = "write"
        /\ UNCHANGED nops
        /\ Then(arg[c], LAMBDA st :
           Then(WriteBlock(Session(tag, NoFault, FALSE), st.i,
                           Slice(st.key, 8 * (st.i - 3), 8 * (st.i - 2))),
                LAMBDA w :
                Exchanged("WriteBlock", c, w,
                          IF w.err # nil
                          THEN Returned(<<"failed to read block", st.i>> \o w.err)
                          ELSE IF st.i < 6 THEN [st EXCEPT !.i = st.i + 1]
                          ELSE [st EXCEPT !.pc = "read", !.i = 0])))

\* ReadConfigurationForCRC, one pass of the loop over the blocks 0..47
ReadConfigBlockOp ==
    \E c \in Callers :
        /\ arg[c].pc = "read"
        /\ UNCHANGED nops
        /\ Then(arg[c], LAMBDA st :
           Then(ReadBlock(Session(tag, NoFault, FALSE), st.i), LAMBDA r :
           Then(hexDecodeString(r.data), LAMBDA bytes :
                Exchanged("ReadBlock", c, r,
                          IF r.err # nil
                          THEN Returned(<<"failed to read configuration">> \o r.err)
                          ELSE IF ~bytes.ok
                          THEN Returned(<<"failed to read configuration">>)
                          ELSE IF st.i < 47
                          THEN [st EXCEPT !.i = st.i + 1,
                                          !.nfcData = st.nfcData \o bytes.bytes]
                          ELSE [st EXCEPT !.pc = "crc", !.i = 48,
                                          !.nfcData = st.nfcData \o bytes.bytes]))))

\* CalculateAndWriteCRC from calculateCRC to the return
WriteCrcOp ==
    \E c \in Callers :
        /\ arg[c].pc = "crc"
        /\ UNCHANGED nops
        /\ Then(WriteBlock(Session(tag, NoFault, FALSE), 48,
                           reverseCRC(calculateCRC(arg[c].nfcData))),
                LAMBDA w :
                Exchanged("CalculateAndWriteCRC", c, w,
                          IF w.err # nil
                          THEN Returned(<<"failed to write CRC">> \o w.err)
                          ELSE Returned(nil)))

NextShared ==
    \/ CallWriteLoraJoinKeyOp
    \/ WriteKeyBlockOp
    \/ ReadConfigBlockOp
    \/ WriteCrcOp

SpecShared == InitShared /\ [][NextShared]_vars

-----------------------------------------------------------------------------
(* The lookups on their own: every two-character code over the hex digits *)
(* of both cases, given to parseBLEGain, getBeaconInfo, parseLoRaRegion    *)
(* and parsePingSlotPeriod.                                                *)

Codes == {<<a, b>> : a \in DOMAIN HexValue, b \in DOMAIN HexValue}

InitLookup ==
    /\ tag = BlankTag
    /\ sent = <<>>
    /\ op = "init"
    /\ arg \in Codes
    /\ fault = NoFault
    /\ result = [err |-> nil, val |-> <<>>]
    /\ pre = tag
    /\ prev = [op |-> "init", arg |-> <<>>, fault |-> NoFault, err |-> nil]
    /\ nops = 0
    /\ rcvd = <<>>
    /\ uid = <<>>
    /\ currentBeaconType = 0

\* the pure function o applied to arg gave error e and value v
Applied(o, e, v) ==
    /\ op' = o
    /\ result' = [err |-> e, val |-> v]
    /\ prev' = [op |-> op, arg |-> arg, fault |-> fault, err |-> result.err]
    /\ nops' = nops + 1
    /\ UNCHANGED <<tag, sent, rcvd, arg, fault, pre, uid, currentBeaconType>>

ParseBLEGainOp ==
    /\ op = "init"
    /\ Applied("parseBLEGain", nil, parseBLEGain(arg))

GetBeaconInfoOp ==
    /\ op = "init"
    /\ Applied("getBeaconInfo", getBeaconInfo(arg).err, getBeaconInfo(arg).info)

ParseLoRaRegionOp ==
    /\ op = "init"
    /\ Applied("parseLoRaRegion", nil, parseLoRaRegion(arg))

ParsePingSlotPeriodOp ==
    /\ op = "init"
    /\ Applied("parsePingSlotPeriod", nil, parsePingSlotPeriod(arg))

NextLookup ==
    \/ ParseBLEGainOp
    \/ GetBeaconInfoOp
    \/ ParseLoRaRegionOp
    \/ ParsePingSlotPeriodOp

SpecLookup == InitLookup /\ [][NextLookup]_vars

-----------------------------------------------------------------------------
(* Properties *)

Mismatch == <<"CRC validation failed">>
ErasedBlock == <<255, 255, 255, 255>>
FailAtBlock12 == Fault("write", 12, "chan")
IsValidDevEui(x) == Len(x) = 16 /\ IsHexString(x)

\* C1: after a mutation of the card API returns without error, the CRC
\* decoded from the first two bytes of block 48 equals the CRC-16 computed
\* over blocks 0-47, whatever the tag held and whatever ran before.
C1_CrcMatchesAfterMutation ==
    (IsMutation(op) /\ result.err = nil) => CrcConsistent(tag)

\* a mutation succeeded as the second operation on a tag whose CRC was stale
C1_Witness ==
    IsMutation(op) /\ result.err = nil /\ nops = 2 /\ ~CrcConsistent(pre)

\* C2: when CalculateAndWriteCRC returned success and nothing was written
\* since, the next ValidateCRC (on a transport without fault) returns success.
C2_ValidateAfterRecompute ==
    (/\ prev.op = "CalculateAndWriteCRC" /\ prev.err = nil
     /\ op = "ValidateCRC" /\ fault = NoFault)
    => result.err = nil

C2_Witness ==
    /\ prev.op = "CalculateAndWriteCRC" /\ prev.err = nil
    /\ op = "ValidateCRC" /\ fault = NoFault /\ result.err = nil
    /\ Len(sent) = 49

\* C3: after EraseTag returns success every configuration block 0-47 holds
\* FFFFFFFF, and a ValidateCRC that follows returns success.
C3_EraseThenValidate ==
    /\ (op = "EraseTag" /\ result.err = nil)
       => \A b \in 0..47 : tag[b] = ErasedBlock
    /\ (/\ prev.op = "EraseTag" /\ prev.err = nil
        /\ op = "ValidateCRC" /\ fault = NoFault)
       => (result.err = nil /\ \A b \in 0..47 : tag[b] = ErasedBlock)

C3_Witness ==
    /\ prev.op = "EraseTag" /\ prev.err = nil
    /\ op = "ValidateCRC" /\ result.err = nil
    /\ \A b \in 0..47 : tag[b] = ErasedBlock

\* C4 as claimed: when WriteLoraDevEui fails at the write of block 12 after
\* the write of block 11, on a tag that validated, it returns an error
\* without rewriting block 48 and the next ValidateCRC reports a mismatch,
\* for every new DevEUI.
C4_Original ==
    [][(/\ op = "WriteLoraDevEui" /\ IsValidDevEui(arg) /\ fault = FailAtBlock12
        /\ CrcConsistent(pre)
        /\ op' = "ValidateCRC" /\ fault' = NoFault)
       => (/\ result.err # nil
           /\ tag[48] = pre[48]
           /\ result'.err = Mismatch)]_vars

\* C4 as amended: the failed call returns an error and leaves blocks 12 and
\* 48 as they were; the next ValidateCRC reports a mismatch exactly when the
\* CRC-16 of blocks 0-47 with the new block 11 differs from the stored CRC,
\* and it succeeds when the new first half equals what block 11 held.
C4_MidwayFailureFlagged ==
    [][(/\ op = "WriteLoraDevEui" /\ IsValidDevEui(arg) /\ fault = FailAtBlock12
        /\ CrcConsistent(pre)
        /\ op' = "ValidateCRC" /\ fault' = NoFault)
       => (/\ result.err # nil
           /\ tag[48] = pre[48]
           /\ tag[12] = pre[12]
           /\ tag[11] = hexDecodeString(Slice(arg, 0, 8)).bytes
           /\ result'.err \in {nil, Mismatch}
           /\ (result'.err = Mismatch) <=>
                  (calculateCRC(ConfigBytes(tag)) # DecodeStoredCRC(pre[48]))
           /\ (tag[11] = pre[11]) => (result'.err = nil))]_vars

\* the write of block 12 failed after block 11 took the new value, and the
\* validation that followed reported the mismatch
C4_Witness ==
    /\ prev.op = "WriteLoraDevEui" /\ prev.fault = FailAtBlock12
    /\ prev.err # nil /\ prev.arg = DevEuiValid
    /\ op = "ValidateCRC" /\ fault = NoFault /\ result.err = Mismatch
    /\ tag[11] = hexDecodeString(Slice(DevEuiValid, 0, 8)).bytes
    /\ tag[12] = SampleTag[12] /\ tag[48] = SampleTag[48]

\* C5: ValidateCRC transmits read commands only and leaves every block
\* 0-48 as it was, whether it succeeds or not; a mismatch it reported is
\* reported again by the ValidateCRC that follows.
C5_ValidateReadsOnly ==
    (op = "ValidateCRC") =>
        /\ tag = pre
        /\ \A i \in 1..Len(sent) : IsReadCmd(sent[i])
        /\ (prev.op = "ValidateCRC" /\ prev.err = Mismatch /\ fault = NoFault)
           => result.err = Mismatch

C5_Witness ==
    /\ prev.op = "ValidateCRC" /\ prev.err = Mismatch
    /\ op = "ValidateCRC" /\ result.err = Mismatch
    /\ Len(sent) = 49 /\ tag = pre

\* C6: WriteLoraJoinKey with a key longer than 32 characters returns an
\* error before any command is transmitted; no block changes.
C6_LongJoinKeyRejected ==
    (op = "WriteLoraJoinKey" /\ Len(arg) > 32) =>
        (result.err # nil /\ sent = <<>> /\ tag = pre)

C6_Witness ==
    op = "WriteLoraJoinKey" /\ Len(arg) > 32 /\ result.err # nil /\ sent = <<>>

\* C7: WriteLoraDevEui accepts only 16 hexadecimal characters; for every
\* other input it returns an error and blocks 11, 12 and 48 keep their
\* previous values.
C7_Claim ==
    (op = "WriteLoraDevEui" /\ ~IsValidDevEui(arg)) =>
        (/\ result.err # nil
         /\ tag[11] = pre[11] /\ tag[12] = pre[12] /\ tag[48] = pre[48])

\* C8: no write operation crashes or writes a malformed block: for every
\* input it either returns an error before transmitting anything or
\* transmits only write commands that carry exactly 4 bytes of payload.
C8_Claim ==
    (op \in {"WriteLoraJoinEui", "WriteLoraJoinKey", "WriteBLELocalName",
             "WriteLoraDevEui"}) =>
        /\ result.err # <<"panic">>
        /\ \/ (result.err # nil /\ sent = <<>>)
           \/ \A i \in 1..Len(sent) :
                 IsWriteCmd(sent[i]) => Len(CmdPayload(sent[i])) = 4

\* C9 as claimed: after a successful WriteLoraDevEui(x), ReadLoraDevEui
\* returns x.
C9_Original ==
    (/\ prev.op = "WriteLoraDevEui" /\ prev.err = nil
     /\ op = "ReadLoraDevEui" /\ result.err = nil)
    => result.val = prev.arg

\* C9 as amended: after a successful WriteLoraDevEui(x), ReadLoraDevEui
\* returns the 8 octets of x in upper case separated by colons (23
\* characters); without the colons it is x in upper case.
C9_DevEuiRoundTrip ==
    (/\ prev.op = "WriteLoraDevEui" /\ prev.err = nil
     /\ op = "ReadLoraDevEui" /\ result.err = nil)
    => /\ Len(result.val) = 23
       /\ \A i \in 1..23 :
             IF i % 3 = 0 THEN result.val[i] = ":"
             ELSE result.val[i] = ToUpperChar(prev.arg[i - (i \div 3)])

C9_Witness ==
    /\ prev.op = "WriteLoraDevEui" /\ prev.err = nil /\ prev.arg = DevEuiValid
    /\ op = "ReadLoraDevEui" /\ result.err = nil
    /\ result.val[1] = "0" /\ result.val[2] = "C" /\ result.val[3] = ":"

\* C10: for every 16-bit CRC value c the block reverseCRC produces (low
\* byte, high byte, two zero bytes) decodes in ValidateCRC back to c, both
\* as produced and after it went through block 48 of the tag.
C10_StorageRoundTrip ==
    /\ (op = "reverseCRC") =>
           /\ result.err = nil
           /\ tag[48] = <<arg % 256, arg \div 256, 0, 0>>
           /\ storedCRCOf(result.val) = arg
    /\ (op = "storedCRC") => (result.err = nil /\ result.val = arg)

C10_Witness ==
    /\ op = "storedCRC" /\ arg = 4660 /\ result.val = 4660
    /\ tag[48] = <<52, 18, 0, 0>>

-----------------------------------------------------------------------------
(* The reference CRC-16/CCITT: the message taken bit by bit, most         *)
(* significant bit of each byte first, through a 16-bit register that      *)
(* starts at 0xFFFF, with polynomial 0x1021 and no final exclusive or.     *)

\* bit k (from 1) of the message
MsgBit(data, k) ==
    (data[((k - 1) \div 8) + 1] \div (2 ^ (7 - ((k - 1) % 8)))) % 2

RefCrcStep(crc, bit) ==
    IF (crc \div 32768) # bit
    THEN Xor((crc * 2) % 65536, 4129)
    ELSE (crc * 2) % 65536

RECURSIVE RefCrcBits(_, _, _, _)
RefCrcBits(data, lo, hi, crc) ==
    IF lo > hi THEN crc
    ELSE IF lo = hi THEN RefCrcStep(crc, MsgBit(data, lo))
    ELSE Then(RefCrcBits(data, lo, (lo + hi) \div 2, crc), LAMBDA left :
         IF left < 0 THEN left
         ELSE RefCrcBits(data, ((lo + hi) \div 2) + 1, hi, left))

ReferenceCRC(data) == RefCrcBits(data, 1, 8 * Len(data), 65535)

\* the ASCII digits "123456789", whose CRC-16/CCITT (init 0xFFFF) is 0x29B1
CheckMessage == <<49, 50, 51, 52, 53, 54, 55, 56, 57>>

\* C11: the checksum of CalculateAndWriteCRC and ValidateCRC is the
\* reference CRC-16/CCITT of the 192 bytes of blocks 0-47 in ascending
\* address order, whatever the blocks hold: ReadConfigurationForCRC gives
\* exactly those bytes, CalculateAndWriteCRC stores the reference CRC of
\* them, and ValidateCRC succeeds exactly when block 48 holds it.
C11_ReferenceCrc ==
    /\ ReferenceCRC(CheckMessage) = 10673
    /\ calculateCRC(CheckMessage) = 10673
    /\ (op = "ReadConfigurationForCRC" /\ result.err = nil)
       => (Len(result.val) = 192 /\ result.val = ConfigBytes(tag))
    /\ (op = "CalculateAndWriteCRC" /\ result.err = nil)
       => DecodeStoredCRC(tag[48]) = ReferenceCRC(ConfigBytes(pre))
    /\ (op = "ValidateCRC" /\ fault = NoFault)
       => /\ result.err \in {nil, Mismatch}
          /\ (result.err = nil) <=>
                 (DecodeStoredCRC(tag[48]) = ReferenceCRC(ConfigBytes(tag)))

\* a tag whose last configuration block was changed is sealed and validates
C11_Witness ==
    /\ prev.op = "CalculateAndWriteCRC" /\ prev.err = nil
    /\ op = "ValidateCRC" /\ result.err = nil
    /\ tag[47] = <<1, 2, 3, 4>>
    /\ DecodeStoredCRC(tag[48]) = ReferenceCRC(ConfigBytes(tag))

-----------------------------------------------------------------------------
(* Block operations *)

IsBlockOp == op \in {"ReadBlock", "WriteBlock", "getUID"}
StatusOK(resp) ==
    Len(resp) >= 2 /\ resp[Len(resp) - 1] = 144 /\ resp[Len(resp)] = 0
WithoutStatus(resp) == SubSeq(resp, 1, Len(resp) - 2)

\* C12: a block operation succeeds exactly when the channel reported no
\* error and the response ends in 90 00 (so has at least 2 bytes); in every
\* other case it returns an error and no data; on success the data is the
\* response without its two status bytes (in hexadecimal).
C12_StatusWordCheck ==
    IsBlockOp =>
        /\ Len(rcvd) = 0 => (result.err # nil /\ result.val = <<>>)
        /\ Len(rcvd) = 1 =>
              /\ (result.err = nil) <=> (~rcvd[1].err /\ StatusOK(rcvd[1].resp))
              /\ result.err # nil => result.val = <<>>
              /\ (result.err = nil /\ op # "getUID") =>
                     /\ Len(result.val) = 2 * Len(WithoutStatus(rcvd[1].resp))
                     /\ hexDecodeString(result.val).bytes
                           = WithoutStatus(rcvd[1].resp)
              /\ (result.err = nil /\ op = "getUID") =>
                     hexDecodeString(uid).bytes = WithoutStatus(rcvd[1].resp)

\* a read answered with the block and 90 00 returned the four bytes
C12_Witness ==
    /\ op = "ReadBlock" /\ arg.block = 13 /\ result.err = nil
    /\ rcvd = <<[err |-> FALSE, resp |-> <<16, 16, 0, 0, 144, 0>>]>>
    /\ result.val = <<"1","0","1","0","0","0","0","0">>

\* C13: ReadBlock and WriteBlock with a block index outside 0-48 return an
\* error before any command is transmitted.
C13_Claim ==
    (op \in {"ReadBlock", "WriteBlock"} /\ arg.block \notin 0..48)
    => (result.err # nil /\ sent = <<>>)

\* C14: the command transmitted is FF B0 n(2 bytes, big-endian) 04 for
\* ReadBlock(n), FF D6 n(2 bytes, big-endian) 04 p for WriteBlock(n, p)
\* with n in 0..48 and p of 4 bytes, and FF CA 00 00 00 for getUID.
C14_CommandEncoding ==
    /\ (op = "ReadBlock" /\ arg.block \in 0..48) =>
           sent = << <<255, 176, arg.block \div 256, arg.block % 256, 4>> >>
    /\ (op = "WriteBlock" /\ arg.block \in 0..48) =>
           sent = << <<255, 214, arg.block \div 256, arg.block % 256, 4>>
                     \o hexDecodeString(arg.data).bytes >>
    /\ (op = "getUID") => sent = << <<255, 202, 0, 0, 0>> >>

C14_Witness ==
    /\ op = "WriteBlock" /\ arg.block = 48 /\ arg.data = PayloadLower
    /\ sent = << <<255, 214, 0, 48, 4, 12, 30, 247, 165>> >>
    /\ tag[48] = <<12, 30, 247, 165>>

\* C15: a ReadBlock or WriteBlock call makes at most one exchange with the
\* reader; a failed exchange is returned as an error at once and the
\* command is not transmitted again.
C15_NoRetry ==
    (op \in {"ReadBlock", "WriteBlock"}) =>
        /\ Len(sent) <= 1
        /\ Len(rcvd) = Len(sent)
        /\ (Len(rcvd) = 1 /\ (rcvd[1].err \/ ~StatusOK(rcvd[1].resp)))
           => result.err # nil

C15_Witness ==
    /\ op = "ReadBlock" /\ fault = Fault("read", 13, "chan")
    /\ result.err = <<"transmission failed">> /\ Len(sent) = 1

-----------------------------------------------------------------------------
(* Lookups *)

MappedGains ==
    {<<"D","8">>, <<"E","C">>, <<"F","0">>, <<"F","4">>, <<"F","8">>,
     <<"F","C">>, <<"0","0">>, <<"0","3">>, <<"0","4">>}

KnownBeaconTypes ==
    {<<"0","0">>, <<"0","1">>, <<"F","F">>, <<"0","D">>, <<"1","2">>,
     <<"0","9">>, <<"0","8">>, <<"1","4">>, <<"1","5">>, <<"1","3">>,
     <<"1","6">>, <<"1","7">>}

\* C17: the BLE gain lookup maps "D8" to "-40dBm" and every code outside
\* its table to "Unknown", without an error; getBeaconInfo answers a beacon
\* type outside its table with an error and no BeaconInfo.
C17_UnmappedCodes ==
    /\ op = "parseBLEGain" =>
           /\ result.err = nil
           /\ arg = <<"D","8">> => result.val = "-40dBm"
           /\ arg \notin MappedGains => result.val = "Unknown"
    /\ (op = "getBeaconInfo" /\ arg \notin KnownBeaconTypes) =>
           /\ result.err # nil
           /\ result.val = <<>>

C17_Witness ==
    /\ op = "getBeaconInfo"
    /\ arg = <<"0","d">>
    /\ result.err = <<"unknown beacon type", <<"0","d">>>>

\* the two-character codes that the decimal keys of a table stand for
DecimalCodes(keys) == {c \in Codes : IsDecimal(c) /\ DecValue(c) \in keys}

\* C18: the region lookup answers "Not Selected" and the ping-slot lookup
\* "Unknown" for every two-hex-character code that is not a key of the
\* table; a code that is not a decimal number never gets the label of a
\* mapped code.
C18_Claim ==
    /\ (op = "parseLoRaRegion"
          /\ arg \notin DecimalCodes({0, 1, 5, 6, 7, 8, 10, 11})) =>
           result.val = "Not Selected"
    /\ (op = "parsePingSlotPeriod" /\ arg \notin DecimalCodes(0..7)) =>
           result.val = "Unknown"

-----------------------------------------------------------------------------
(* Settings readers *)

IsSettingsOp == op \in {"ReadDittoSettings", "ReadLoRaSettings"}

\* the blocks the reader of the last operation reads, in its order
BlockOrder ==
    IF op = "ReadDittoSettings"
    THEN <<7, 8, 9, 13, 14, 15, 19, 20, 21, 24, 25, 26, 27, 28, 29, 30, 31>>
    ELSE <<8, 9, 10, 11, 12, 13, 14, 15>>

\* the i-th exchange of the last operation did not give a block
ReadFailed(i) == rcvd[i].err \/ ~StatusOK(rcvd[i].resp)

\* C16: ReadDittoSettings and ReadLoRaSettings read their blocks in order;
\* when a read fails they return no settings and an error naming the block
\* of that read, which is the last command they send; they return settings
\* only when every block was read.
C16_NoPartialSnapshot ==
    IsSettingsOp =>
        /\ Len(sent) <= Len(BlockOrder)
        /\ Len(rcvd) = Len(sent)
        /\ \A i \in 1..Len(sent) :
               sent[i] = <<255, InsRead, 0, BlockOrder[i], 4>>
        /\ \A i \in 1..Len(rcvd) :
               ReadFailed(i) =>
                   /\ i = Len(sent)
                   /\ result.val = <<>>
                   /\ Len(result.err) >= 2
                   /\ result.err[1] = "failed to read block"
                   /\ result.err[2] = BlockOrder[i]
        /\ (\A i \in 1..Len(rcvd) : ~ReadFailed(i)) =>
               /\ Len(sent) = Len(BlockOrder)
               /\ result.err = nil
               /\ Len(result.val) = 1

C16_Witness ==
    /\ op = "ReadDittoSettings"
    /\ fault = Fault("read", 19, "sw")
    /\ Len(sent) = 7
    /\ result.err[2] = 19
    /\ result.val = <<>>

\* C19: after a successful WriteTagSleepBit(v), ReadLoRaSettings and
\* ReadDittoSettings both report SleepState "Asleep" when v is true and
\* "Awake" when v is false.
C19_Claim ==
    (/\ IsSettingsOp
     /\ result.err = nil
     /\ prev.op = "WriteTagSleepBit"
     /\ prev.err = nil) =>
        result.val[1].SleepState = IF prev.arg THEN "Asleep" ELSE "Awake"

GainLabel(g) ==
    CASE g = 216 -> "-40dBm" [] g = 236 -> "-20dBm" [] g = 240 -> "-16dBm"
      [] g = 244 -> "-12dBm" [] g = 248 -> "-8dBm" [] g = 252 -> "-4dBm"

\* C20: ReadBlock returns 8 upper-case hex characters for a 4-byte block; a
\* tag with gain byte D8, EC, F0, F4, F8 or FC in block 19 is given that
\* gain's label by ReadDittoSettings, and a tag with SKU byte 0D or FF in
\* block 15 is given that beacon type's name by ReadSKU.
C20_Claim ==
    /\ (op = "ReadBlock" /\ result.err = nil) =>
           /\ Len(result.val) = 8
           /\ result.val = ToUpper(result.val)
    /\ (op = "ReadDittoSettings" /\ result.err = nil
          /\ tag[19][4] \in {216, 236, 240, 244, 248, 252}) =>
           result.val[1].BLEGain = GainLabel(tag[19][4])
    /\ (op = "ReadSKU" /\ fault = NoFault /\ tag[15][3] \in {13, 255}) =>
           /\ result.err = nil
           /\ result.val[1].Name = IF tag[15][3] = 13 THEN "Sense Asset BLE"
                                 ELSE "Please select the tag type"

-----------------------------------------------------------------------------
(* Mode flags *)

\* bit k of byte b, bit 0 the least significant
Bit(b, k) == (b \div (2 ^ k)) % 2

\* C21: ReadDittoSettings reads the mode flags least significant bit first:
\* BLERefMode from (bit 0, bit 1) and ClassSelect from (bit 4, bit 5) of the
\* last byte of block 30, ConfirmedUplinks from bit 0 and Hopping from bit 4
\* of the first byte of block 31.
C21_FlagBits ==
    (op = "ReadDittoSettings" /\ result.err = nil) =>
        /\ result.val[1].BLERefMode =
              CASE <<Bit(tag[30][4], 0), Bit(tag[30][4], 1)>> = <<1, 0>>
                       -> "Reference Tags"
                [] <<Bit(tag[30][4], 0), Bit(tag[30][4], 1)>> = <<0, 1>>
                       -> "BluFi"
                [] <<Bit(tag[30][4], 0), Bit(tag[30][4], 1)>> = <<0, 0>>
                       -> "Disabled"
                [] OTHER -> "Unknown"
        /\ result.val[1].ClassSelect =
              CASE <<Bit(tag[30][4], 4), Bit(tag[30][4], 5)>> = <<0, 0>>
                       -> "Class A"
                [] <<Bit(tag[30][4], 4), Bit(tag[30][4], 5)>> = <<1, 0>>
                       -> "Class B"
                [] <<Bit(tag[30][4], 4), Bit(tag[30][4], 5)>> = <<0, 1>>
                       -> "Class C"
                [] OTHER -> "Unknown"
        /\ result.val[1].ConfirmedUplinks =
              IF Bit(tag[31][1], 0) = 1 THEN "Enabled" ELSE "Disabled"
        /\ result.val[1].Hopping =
              IF Bit(tag[31][1], 4) = 1 THEN "Enabled" ELSE "Disabled"

C21_Witness ==
    /\ op = "ReadDittoSettings"
    /\ result.err = nil
    /\ tag[30][4] = 2
    /\ result.val[1].BLERefMode = "BluFi"

-----------------------------------------------------------------------------
(* BLE local name *)

\* the 8 bytes that hold a name of at most 8 characters
NameBytes(name) == [i \in 1..8 |-> IF i <= Len(name) THEN Rune(name[i]) ELSE 0]

IsWrite(cmd) == Len(cmd) >= 2 /\ cmd[2] = InsWrite

\* C22: a successful WriteBLELocalName of a name of at most 8 characters
\* leaves the name's bytes and then zero bytes in blocks 22-23, and a
\* ReadBLELocalName after it returns the name; a name of more than 8
\* characters is rejected without any write.
C22_NameRoundTrip ==
    /\ (op = "WriteBLELocalName" /\ result.err = nil) =>
           /\ Len(arg) <= 8
           /\ tag[22] \o tag[23] = NameBytes(arg)
    /\ (op = "WriteBLELocalName" /\ Len(arg) > 8) =>
           /\ result.err # nil
           /\ \A i \in 1..Len(sent) : ~IsWrite(sent[i])
           /\ tag = pre
    /\ (/\ op = "ReadBLELocalName"
        /\ result.err = nil
        /\ prev.op = "WriteBLELocalName"
        /\ prev.err = nil) =>
           result.val = prev.arg

C22_Witness ==
    /\ op = "ReadBLELocalName"
    /\ result.err = nil
    /\ prev.op = "WriteBLELocalName"
    /\ prev.err = nil
    /\ result.val = <<"T","a","g"," ","1",":","x">>

-----------------------------------------------------------------------------
(* ReadLoraInfo *)

\* C23: ReadLoraInfo reports "INVALID" only when the CRC stored in block 48
\* differs from the CRC of blocks 0-47 and "VALID" only when they are equal;
\* when any of its block reads failed it returns an error and no LoraInfo.
C23_Claim ==
    op = "ReadLoraInfo" =>
        /\ result.err = nil =>
               (result.val[1].CRCStatus = "VALID") <=> CrcConsistent(tag)
        /\ (\E i \in 1..Len(rcvd) : ReadFailed(i)) =>
               /\ result.err # nil
               /\ result.val = <<>>

-----------------------------------------------------------------------------
(* Block answers of the wrong length *)

\* the i-th exchange was answered with status 90 00 and other than 4 bytes
WrongLength(i) ==
    /\ ~rcvd[i].err
    /\ StatusOK(rcvd[i].resp)
    /\ Len(WithoutStatus(rcvd[i].resp)) # 4

\* C24: when a read is answered with status 90 00 and other than 4 bytes of
\* data, ReadLoraDevEui, ReadBleMac, ReadSKU, ReadDittoSettings,
\* ReadLoRaSettings, ValidateCRC and WriteTagSleepBit end with an error that
\* is not a run-time panic, and without a decoded value.
C24_Claim ==
    (/\ op \in {"ReadLoraDevEui", "ReadBleMac", "ReadSKU", "ReadDittoSettings",
                 "ReadLoRaSettings", "ValidateCRC", "WriteTagSleepBit"}
     /\ \E i \in 1..Len(rcvd) : IsReadCmd(sent[i]) /\ WrongLength(i)) =>
        /\ result.err # nil
        /\ result.err # <<"panic">>
        /\ result.val = <<>>

-----------------------------------------------------------------------------
(* The erase command *)

Fill == <<255, 255, 255, 255>>

\* the write commands among the commands sent, in the order sent
Writes == SelectSeq(sent, IsWriteCmd)

\* C25: the erase command sends, in this order, the fill pattern FFFFFFFF to
\* the blocks 0..47 and to no other block, then one write of the recomputed
\* CRC to block 48, then the reads of a validation; block 48 is never
\* written with the fill pattern, and the line that reports the erasure is
\* printed only when the validation passed.
C25_Claim ==
    (op = "erase" /\ arg = Confirm) =>
        /\ \A i \in 1..Len(sent) :
               (IsWriteCmd(sent[i]) /\ CmdPayload(sent[i]) = Fill)
                   => CmdBlock(sent[i]) \in 0..47
        /\ fault = NoFault =>
               /\ [i \in 1..Len(Writes) |-> CmdBlock(Writes[i])]
                      = [i \in 1..49 |-> i - 1]
               /\ \A i \in 1..Len(sent) : i > 49 + 48 => IsReadCmd(sent[i])
        /\ (\E k \in 1..Len(result.val.out) :
                result.val.out[k] = "Tag erased successfully")
               => ~result.val.failed

\* C29: the erase command sends a write command only when its parameter is
\* exactly "confirm"; with any other parameter it sends nothing and the tag
\* keeps its content.
C29_EraseNeedsConfirm ==
    (op = "erase" /\ arg # Confirm) =>
        /\ \A i \in 1..Len(sent) : ~IsWriteCmd(sent[i])
        /\ tag = pre

\* the erase command was given "CONFIRM" on the configured tag and left it
C29_Witness ==
    /\ op = "erase"
    /\ arg = <<"C","O","N","F","I","R","M">>
    /\ sent = <<>>
    /\ tag = SampleTag
    /\ prev.op = "erase"
    /\ prev.arg = <<"y","e","s">>

-----------------------------------------------------------------------------
(* Command lists *)

\* C30: the commands of a list run in the order of the list; when a command
\* fails, no later command of the list runs and the final line SUCCESS is not
\* printed, whichever command it is.
C30_Claim ==
    op = "main" =>
        /\ Len(result.val.ran) <= Len(arg.commands)
        /\ \A i \in 1..Len(result.val.ran) :
               /\ result.val.ran[i].cmd = arg.commands[i]
               /\ result.val.ran[i].failed =>
                      /\ Len(result.val.ran) = i
                      /\ ~result.val.success

-----------------------------------------------------------------------------
(* What the bit writers leave alone *)

\* C27: a successful WriteTagSleepBit changes nothing on the tag but the
\* third hex digit of block 13 (the high half of its second byte) and block
\* 48; a successful WriteTagPostBit changes nothing but the first byte of
\* block 9 and block 48.
C27_BitWritersFrame ==
    /\ (op = "WriteTagSleepBit" /\ result.err = nil) =>
           /\ \A b \in 0..47 : b # 13 => tag[b] = pre[b]
           /\ tag[13][1] = pre[13][1]
           /\ tag[13][2] % 16 = pre[13][2] % 16
           /\ tag[13][3] = pre[13][3]
           /\ tag[13][4] = pre[13][4]
    /\ (op = "WriteTagPostBit" /\ result.err = nil) =>
           /\ \A b \in 0..47 : b # 9 => tag[b] = pre[b]
           /\ SubSeq(tag[9], 2, 4) = SubSeq(pre[9], 2, 4)

\* the post bit was set on the configured tag, whose block 9 holds 00 05 00
\* 00, and the sleep bit was then written: block 13 went from 10 10 00 00
\* to 10 00 00 00 and block 48 changed
C27_Witness ==
    /\ op = "WriteTagSleepBit"
    /\ arg = TRUE
    /\ result.err = nil
    /\ pre[13] = <<16, 16, 0, 0>>
    /\ tag[13] = <<16, 0, 0, 0>>
    /\ tag[48] # pre[48]
    /\ prev.op = "WriteTagPostBit"
    /\ prev.err = nil
    /\ tag[9] = <<1, 5, 0, 0>>

\* the snapshots the two settings readers give of the tag t
DittoSnapshot(t) == ReadDittoSettings(Session(t, NoFault, FALSE)).data
LoRaSnapshot(t) == ReadLoRaSettings(Session(t, NoFault, FALSE), 3).data

\* C28: after a successful WriteTagPostBit both settings readers give the
\* snapshot they gave before it, the field LowTemperature included.
C28_Claim ==
    (op = "WriteTagPostBit" /\ result.err = nil) =>
        /\ DittoSnapshot(tag) = DittoSnapshot(pre)
        /\ LoRaSnapshot(tag) = LoRaSnapshot(pre)

-----------------------------------------------------------------------------
(* Two callers *)

\* C26: when two callers of a mutation share the card and only their single
\* exchanges are serialized, then once both calls have returned without
\* error the CRC stored in block 48 is the CRC of blocks 0..47.
C26_Claim ==
    (/\ op \in {"WriteLoraJoinKey", "WriteBlock", "ReadBlock", "CalculateAndWriteCRC"}
     /\ DOMAIN arg = Callers
     /\ \A c \in Callers : arg[c].pc = "done" /\ arg[c].err = nil)
        => CrcConsistent(tag)

====
